---- MODULE Spec2Model ----
(***************************************************************************)
(* Model of the chat gateway: the request orchestrator handle_chat         *)
(* (src/src/chat/service.rs) running as concurrent requests over the       *)
(* serialized store (src/src/app/db/tokens.rs, logs.rs, users.rs).         *)
(*                                                                         *)
(* Granularity: every store operation (one with_db / with_db_mut call) and *)
(* every access to the AppState mutex is one atomic step; the local        *)
(* computation of a request between two such steps touches no shared       *)
(* state and is folded into the step that precedes it.  Network awaits     *)
(* (send, reading the response body) are steps whose outcome is drawn      *)
(* nondeterministically.                                                   *)
(*                                                                         *)
(* Time is counted in minutes.  Texts are modelled by their length.        *)
(* Log timestamps are Local::now() taken inside the serialized store, so   *)
(* the timestamp order of the rows is their insertion (id) order.          *)
(***************************************************************************)
EXTENDS Integers, Sequences, FiniteSets, TLC

\* ---------------------------------------------------------------- bounds
MaxRequests == 2
MaxTime == 1

MaxRows == 3
MaxKeep == 2
MaxReclaimRows == 2
MaxDuration == 2
MaxRawStatus == 4
MaxForumId == 2
MaxTxRows == 2
MaxChunks == 3
MaxAppLogs == 3
MaxAppIds == 4
MaxLimit == 2
MaxFrames == 4
FrameLen == 2

\* ------------------------------------------------------ program constants
GRACE_MINUTES == 1
MAX_ERROR_LENGTH == 1000
MAX_PROMPT_LENGTH == 100000
MAX_MODEL_LENGTH == 100
MAX_TOKEN_LENGTH == 1000
MAX_CHECKSUM_LENGTH == 200
MAX_ALIAS_LENGTH == 100
LOG_KEEP == 100

\* ------------------------------------------------------------ value sets
RequestIds == 1..MaxRequests
UserIds == {0, 1, 2}
TokenIds == {1, 2, 3}
NoTime == -1
NoId == 0
NoUser == -1
NoText == -1

TokenStatus == {"Pending", "Active", "Expired", "Deleted"}
LogStatus == {"Pending", "Success", "Failed", "Deleted"}

\* model names a request can carry, and what the code asks of them
AVAILABLE_MODELS == {"gpt-4", "cursor-fast", "claude-3-opus"}
USAGE_CHECK_MODELS == {"gpt-4"}
RequestModels == {"gpt-4", "cursor-fast", "claude-next"}
starts_with_claude(m) == m \in {"claude-3-opus", "claude-next"}
is_usage_check(m) == m \in USAGE_CHECK_MODELS

\* bearer values of a request: no header, an unknown token, a user's token
NoBearer == -1
UnknownBearer == 99
auth_token_of(u) == 10 + u
Bearers == {NoBearer, UnknownBearer} \cup {auth_token_of(u) : u \in UserIds}

\* lengths of the transport error text e.to_string()
TransportErrorLengths == {MAX_ERROR_LENGTH, MAX_ERROR_LENGTH + 1}
\* lengths of the fixed error texts "Empty stream response" and
\* "Empty response received"
EMPTY_STREAM_RESPONSE == 21
EMPTY_RESPONSE_RECEIVED == 23
\* lengths of error_respone.native_code() and of a captured debug payload
NativeCodeLengths == {20}
DebugPromptLengths == {NoText, 30}
\* full_text after the non-streaming loop: empty or not
FullTextLengths == {0, 5}
\* status codes an upstream ChatError frame can carry
UpstreamErrorCodes == {429}

VARIABLES
    now,              \* wall clock, minutes
    users,            \* users table: id -> row
    tokens,           \* tokens table: id -> row
    logs,             \* logs table
    total_requests,   \* AppState.total_requests
    active_requests,  \* AppState.active_requests
    req,              \* per request: its position in handle_chat, its locals
                      \* and the response it returned
    usage_task,       \* per request: its background usage-fetch task
    bumped_at,        \* history: per credential, the time its last Pending
                      \* write by handle_chat committed (NoTime: none yet)
    upstream,         \* response body: the bytes of the frame in flight that
                      \* the upstream has not delivered yet
    buffer,           \* `buffer`: the translator's accumulation buffer
    is_start,         \* `is_start`: the next content delta is the first one
    full_text,        \* `full_text`: the transcript, as the list of its texts
    body,             \* the `data:` frames written to the caller so far
    events            \* history: the messages parse_stream_data has returned

vars == <<now, users, tokens, logs, total_requests, active_requests, req,
          usage_task, bumped_at, upstream, buffer, is_start, full_text, body,
          events>>

\* the state of the response-body translation of one request
translation == <<upstream, buffer, is_start, full_text, body, events>>

store == <<users, tokens, logs>>
counters == <<total_requests, active_requests>>

\* ------------------------------------------------------------- responses
\* (status code, error code of ChatError::to_error_response, and for a
\* DatabaseError the text of the store error it carries)
Response(code, error) == [code |-> code, error |-> error, detail |-> "none"]
NoResp == Response(0, "none")
MissingToken == Response(401, "missing_token")
InvalidToken == Response(401, "invalid_token")
UserBanned == Response(403, "user_banned")
NoTokens == Response(503, "no_tokens")
ModelNotSupported == Response(400, "model_not_supported")
EmptyMessages == Response(400, "empty_messages")
RequestFailed == Response(500, "request_failed")
UpstreamError(code) == Response(code, "upstream_error")
StreamOk == Response(200, "stream")
JsonOk == Response(200, "json")
DatabaseError(cause) == [code |-> 500, error |-> "database_error", detail |-> cause]
\* the two store errors told apart: one raised by the store engine, and the
\* InvalidParameterName of update_log_status
StoreFailure == DatabaseError("store failure")
ErrorTooLong == DatabaseError("Error message too long")

NoTokenInfo == [id |-> NoId]

\* a request that has not arrived: no local is bound yet
NewRequest ==
    [pc |-> "start",            \* position in handle_chat
     user |-> NoUser,           \* `user.id`
     token_info |-> NoTokenInfo,\* `token_info`: the fields of the chosen row read later
     log_id |-> NoId,           \* `log_id`
     model |-> "none",          \* `request.model`
     e |-> NoText,              \* `e`: the transport error text (its length)
     error_respone |-> 0,       \* `error_respone`: status code of the ChatError frame
     full_text |-> NoText,      \* `full_text`: the aggregated transcript (its length)
     prompt |-> NoText,         \* `prompt`: the captured debug payload (its length)
     resp |-> NoResp]           \* the response returned to the caller

\* ------------------------------------------------------ store: users.rs
\* SELECT ... FROM users WHERE auth_token = ?1 LIMIT 1; NoUser when no row
get_user_by_auth_token(us, bearer) ==
    IF \E u \in DOMAIN us : us[u].auth_token = bearer
    THEN CHOOSE u \in DOMAIN us : us[u].auth_token = bearer
    ELSE NoUser

\* ----------------------------------------------------- store: tokens.rs
\* WHERE user_id IS ?1 (every row of the owner, whatever its status)
get_tokens_by_user_id(tk, user_id) ==
    {id \in DOMAIN tk : tk[id].user_id = user_id}

\* variants of the eligibility query, each with one conjunct of its WHERE
\* clause dropped
available_any_status(tk, user_id, t) ==
    {id \in DOMAIN tk : t >= tk[id].pending_at /\ tk[id].user_id = user_id}

available_any_owner(tk, user_id, t) ==
    {id \in DOMAIN tk : tk[id].status = "Active" /\ t >= tk[id].pending_at}

available_unfiltered(tk, user_id, t) == get_tokens_by_user_id(tk, user_id)

\* WHERE status = 1 AND datetime('now') >= pengding_at AND user_id IS ?1
get_available_tokens_by_user_id(tk, user_id, t) ==
    {id \in DOMAIN tk : /\ tk[id].status = "Active"
                        /\ t >= tk[id].pending_at
                        /\ tk[id].user_id = user_id}

\* variant of update_token_status whose UPDATE matches no row
update_token_status_lost(tk, id, status, t) == tk

\* UPDATE tokens SET status; for Pending also pengding_at = now + 1 minute,
\* both in one transaction.  An id that matches no row changes nothing.
update_token_status(tk, id, status, t) ==
    IF id \notin DOMAIN tk THEN tk
    ELSE [tk EXCEPT ![id].status = status,
                    ![id].pending_at = IF status = "Pending"
                                       THEN t + GRACE_MINUTES
                                       ELSE @]

\* ------------------------------------------------------- store: logs.rs
\* The logs table is held as [archived, rows]: `rows` are the rows written
\* since start-up, in id (= timestamp) order; `archived[t]` counts the rows
\* of credential t written before, all older than every row of `rows`, not
\* Deleted, and never addressed by id again.  A store without history has
\* archived[t] = 0 for every t.
LogRow(token_id, status, error, debug_prompt) ==
    [token_id |-> token_id, status |-> status, error |-> error, prompt |-> debug_prompt]

RECURSIVE sum_over(_, _)
sum_over(f, S) ==
    IF S = {} THEN 0
    ELSE LET x == CHOOSE y \in S : TRUE IN f[x] + sum_over(f, S \ {x})

archived_total(lg) == sum_over(lg.archived, DOMAIN lg.archived)
\* position in `rows` of the row with this id (AUTOINCREMENT ids)
row_index(lg, id) == id - archived_total(lg)
last_insert_rowid(lg) == archived_total(lg) + Len(lg.rows)

\* INSERT INTO logs ... VALUES (now, token_id, None, model, stream, Pending, None)
insert_log(lg, token_id) ==
    [lg EXCEPT !.rows = Append(@, LogRow(token_id, "Pending", NoText, NoText))]

\* the validation of update_log_status: Err when the error text is too long
error_too_long(error) == error # NoText /\ error > MAX_ERROR_LENGTH

\* UPDATE logs SET status = ?1, error = ?2 WHERE id = ?3
update_log_status(lg, id, status, error) ==
    LET i == row_index(lg, id) IN
    IF i \notin DOMAIN lg.rows THEN lg
    ELSE [lg EXCEPT !.rows[i].status = status, !.rows[i].error = error]

\* the columns of CREATE TABLE logs
LOGS_COLUMNS ==
    {"id", "timestamp", "token_id", "prompt", "model", "stream", "status", "error"}

\* variant of update_log_usage that marks the row Failed
update_log_usage_marks_failed(lg, id, usage) ==
    [ok |-> FALSE, logs |-> update_log_status(lg, id, "Failed", NoText)]

\* UPDATE logs SET usage = ?1 WHERE id = ?2, in one transaction: Err when
\* the table has no such column, no row changed.  The rows of the model
\* carry no usage, so a write of it leaves them as they are.
update_log_usage(lg, id, usage) ==
    IF "usage" \notin LOGS_COLUMNS THEN [ok |-> FALSE, logs |-> lg]
    ELSE [ok |-> TRUE, logs |-> lg]

\* UPDATE logs SET prompt = ?1 WHERE id = ?2
update_log_prompt(lg, id, debug_prompt) ==
    LET i == row_index(lg, id) IN
    IF i \notin DOMAIN lg.rows THEN lg
    ELSE [lg EXCEPT !.rows[i].prompt = debug_prompt]

\* logs JOIN tokens ON token_id WHERE t.user_id = ?1: the positions of the
\* user's rows in `rows`, and the number of the user's archived rows
user_rows(lg, tk, user_id) ==
    {i \in DOMAIN lg.rows :
        lg.rows[i].token_id \in DOMAIN tk /\ tk[lg.rows[i].token_id].user_id = user_id}
user_archived(lg, tk, user_id) ==
    sum_over(lg.archived, {t \in DOMAIN lg.archived : t \in DOMAIN tk /\ tk[t].user_id = user_id})

\* SELECT COUNT(*) ... WHERE t.user_id = ?1 AND l.status != Deleted
get_user_logs_count(lg, tk, user_id) ==
    user_archived(lg, tk, user_id)
      + Cardinality({i \in user_rows(lg, tk, user_id) : lg.rows[i].status # "Deleted"})

\* variant of clean_user_logs whose UPDATE skips one row fewer
clean_user_logs_offset_short(lg, tk, user_id, limit) ==
    LET ids == user_rows(lg, tk, user_id)
        old == user_archived(lg, tk, user_id)
        row_number_asc(i) == old + Cardinality({j \in ids : j <= i})
        marked == {i \in ids : row_number_asc(i) >= limit}
    IN  IF old + Cardinality(ids) <= limit THEN lg
        ELSE [lg EXCEPT !.rows = [i \in 1..Len(lg.rows) |->
                 IF i \in marked THEN [lg.rows[i] EXCEPT !.status = "Deleted"]
                 ELSE lg.rows[i]]]

\* clean_user_logs: log_ids = the user's rows with ROW_NUMBER() OVER (ORDER
\* BY timestamp DESC) > limit; when there is one, UPDATE logs SET status =
\* Deleted WHERE id IN (the user's rows ORDER BY timestamp ASC LIMIT -1
\* OFFSET limit).  Archived rows come first in ascending order; the store
\* is only ever seeded with at most `limit` of them per user, so the offset
\* skips them all.
clean_user_logs(lg, tk, user_id, limit) ==
    LET ids == user_rows(lg, tk, user_id)
        old == user_archived(lg, tk, user_id)
        row_number_desc(i) == Cardinality({j \in ids : j >= i})
        row_number_asc(i) == old + Cardinality({j \in ids : j <= i})
        log_ids_empty == old + Cardinality(ids) <= limit
        marked == {i \in ids : row_number_asc(i) > limit}
    IN  IF log_ids_empty THEN lg
        ELSE [lg EXCEPT !.rows = [i \in 1..Len(lg.rows) |->
                 IF i \in marked THEN [lg.rows[i] EXCEPT !.status = "Deleted"]
                 ELSE lg.rows[i]]]

\* ------------------------------------------------------------------ Init
\* the rows a credential can start with
InitTokenKinds ==
    {[status |-> "Active", pending_at |-> 0],
     [status |-> "Active", pending_at |-> 1],
     [status |-> "Pending", pending_at |-> 1],
     [status |-> "Expired", pending_at |-> 0],
     [status |-> "Deleted", pending_at |-> 0]}

TokenRow(kind, user_id) ==
    [status |-> kind.status, pending_at |-> kind.pending_at, user_id |-> user_id]

\* the reserved administrator (id 0), an ordinary user, and a user whose
\* ban runs until minute 1
InitUsers ==
    [u \in UserIds |->
        [auth_token |-> auth_token_of(u),
         ban_expired_at |-> IF u = 2 THEN 1 ELSE NoTime]]

\* user 1 starts one row short of the retention cap, all rows of credential 1
InitLogs ==
    [archived |-> [t \in TokenIds |-> IF t = 1 THEN LOG_KEEP - 1 ELSE 0],
     rows |-> <<>>]

\* user 1 owns credentials 1 and 2, user 2 credential 3
InitTokens(k) ==
    [id \in TokenIds |->
        CASE id = 1 -> TokenRow([status |-> "Active", pending_at |-> 0], 1)
          [] id = 2 -> TokenRow(k, 1)
          [] OTHER  -> TokenRow([status |-> "Active", pending_at |-> 0], 2)]

Init ==
    /\ now = 0
    /\ users = InitUsers
    /\ \E k \in InitTokenKinds : tokens = InitTokens(k)
    /\ logs = InitLogs
    /\ total_requests = 0
    /\ active_requests = 0
    /\ req = [r \in RequestIds |-> NewRequest]
    /\ usage_task = [r \in RequestIds |-> "none"]
    /\ bumped_at = [id \in TokenIds |-> NoTime]
    /\ upstream = <<>>
    /\ buffer = <<>>
    /\ is_start = TRUE
    /\ full_text = <<>>
    /\ body = <<>>
    /\ events = <<>>

\* --------------------------------------------------------------- helpers
\* handle_chat returns `response`: its locals are dropped (the caller is
\* kept, and log_id as the name of the row the request wrote)
Returned(q, response) ==
    [NewRequest EXCEPT !.pc = "done", !.user = q.user, !.log_id = q.log_id,
                       !.resp = response]

Return(r, response) == req' = [req EXCEPT ![r] = Returned(req[r], response)]
Goto(r, label) == req' = [req EXCEPT ![r].pc = label]

\* ------------------------------------------- handle_chat: admission steps
\* bearer extraction, get_user_by_auth_token, ban check
Authenticate(r) ==
    /\ req[r].pc = "start"
    /\ \A q \in RequestIds : q < r => req[q].pc # "start"
    /\ \E bearer \in Bearers, db_ok \in BOOLEAN :
         LET u == get_user_by_auth_token(users, bearer) IN
         IF bearer = NoBearer THEN Return(r, MissingToken)
         ELSE IF ~db_ok THEN Return(r, StoreFailure)
         ELSE IF u = NoUser THEN Return(r, InvalidToken)
         ELSE IF users[u].ban_expired_at # NoTime /\ users[u].ban_expired_at > now
         THEN Return(r, UserBanned)
         ELSE req' = [req EXCEPT ![r].pc = "select", ![r].user = u]
    /\ UNCHANGED <<now, store, counters, usage_task, bumped_at, translation>>

\* variant of the selection step that marks the chosen credential Pending
\* at once, before the model and the messages are validated
SelectToken_marks_first(r) ==
    /\ req[r].pc = "select"
    /\ \E db_ok \in BOOLEAN, m \in RequestModels, allow_claude \in BOOLEAN,
          messages_empty \in BOOLEAN :
         LET available == get_available_tokens_by_user_id(tokens, req[r].user, now) IN
         IF ~db_ok THEN Return(r, StoreFailure) /\ UNCHANGED <<tokens, bumped_at>>
         ELSE IF available = {} THEN Return(r, NoTokens) /\ UNCHANGED <<tokens, bumped_at>>
         ELSE \E id \in available :
             /\ tokens' = update_token_status(tokens, id, "Pending", now)
             /\ bumped_at' = [bumped_at EXCEPT ![id] = now]
             /\ IF ~(m \in AVAILABLE_MODELS \/ (allow_claude /\ starts_with_claude(m)))
                THEN Return(r, ModelNotSupported)
                ELSE IF messages_empty THEN Return(r, EmptyMessages)
                ELSE req' = [req EXCEPT ![r].pc = "insert_log",
                                        ![r].token_info = [id |-> id],
                                        ![r].model = m]
    /\ UNCHANGED <<now, users, logs, counters, usage_task, translation>>

\* get_available_tokens_by_user_id, the random choice, model validation,
\* the empty-messages check
SelectToken(r) ==
    /\ req[r].pc = "select"
    /\ \E db_ok \in BOOLEAN, m \in RequestModels, allow_claude \in BOOLEAN,
          messages_empty \in BOOLEAN :
         LET available == get_available_tokens_by_user_id(tokens, req[r].user, now) IN
         IF ~db_ok THEN Return(r, StoreFailure)
         ELSE IF available = {} THEN Return(r, NoTokens)
         ELSE \E id \in available :
             IF ~(m \in AVAILABLE_MODELS \/ (allow_claude /\ starts_with_claude(m)))
             THEN Return(r, ModelNotSupported)
             ELSE IF messages_empty THEN Return(r, EmptyMessages)
             ELSE req' = [req EXCEPT ![r].pc = "insert_log",
                                     ![r].token_info = [id |-> id],
                                     ![r].model = m]
    /\ UNCHANGED <<now, store, counters, usage_task, bumped_at, translation>>

\* db::insert_log(&log_info)
InsertLog(r) ==
    /\ req[r].pc = "insert_log"
    /\ \E db_ok \in BOOLEAN :
         IF ~db_ok THEN Return(r, StoreFailure) /\ logs' = logs
         ELSE
             /\ logs' = insert_log(logs, req[r].token_info.id)
             /\ req' = [req EXCEPT ![r].pc = "admit",
                                   ![r].log_id = last_insert_rowid(logs')]
    /\ UNCHANGED <<now, users, tokens, counters, usage_task, bumped_at, translation>>

\* state.lock(): both counters incremented, the usage task spawned when the
\* model is a known one with is_usage_check().  request.model is not read
\* by any later step of this model and is dropped here.
Admit(r) ==
    /\ req[r].pc = "admit"
    /\ total_requests' = total_requests + 1
    /\ active_requests' = active_requests + 1
    /\ usage_task' = [usage_task EXCEPT ![r] =
           IF req[r].model \in AVAILABLE_MODELS /\ is_usage_check(req[r].model)
           THEN "spawned" ELSE @]
    /\ req' = [req EXCEPT ![r].pc = "count", ![r].model = "none"]
    /\ UNCHANGED <<now, store, bumped_at, translation>>

\* db::get_user_logs_count(user.id) >= 100
CountLogs(r) ==
    /\ req[r].pc = "count"
    /\ \E db_ok \in BOOLEAN :
         IF ~db_ok THEN Return(r, StoreFailure)
         ELSE IF get_user_logs_count(logs, tokens, req[r].user) >= LOG_KEEP
         THEN Goto(r, "clean")
         ELSE Goto(r, "bump")
    /\ UNCHANGED <<now, store, counters, usage_task, bumped_at, translation>>

\* db::clean_user_logs(user.id, 100)
CleanLogs(r) ==
    /\ req[r].pc = "clean"
    /\ \E db_ok \in BOOLEAN :
         IF ~db_ok THEN Return(r, StoreFailure) /\ logs' = logs
         ELSE
             /\ logs' = clean_user_logs(logs, tokens, req[r].user, LOG_KEEP)
             /\ Goto(r, "bump")
    /\ UNCHANGED <<now, users, tokens, counters, usage_task, bumped_at, translation>>

\* db::update_token_status(token_info.id, TokenStatus::Pending)
BumpToken(r) ==
    /\ req[r].pc = "bump"
    /\ \E db_ok \in BOOLEAN :
         IF ~db_ok THEN Return(r, StoreFailure) /\ UNCHANGED <<tokens, bumped_at>>
         ELSE
             /\ tokens' = update_token_status(tokens, req[r].token_info.id, "Pending", now)
             /\ bumped_at' = [bumped_at EXCEPT ![req[r].token_info.id] = now]
             /\ Goto(r, "dispatch")
    /\ UNCHANGED <<now, users, logs, counters, usage_task, translation>>

\* ------------------------------------------- handle_chat: dispatch steps
\* the log write of a failure path: update_log_status(log_id, Failed, text)
\* with `?`: a failed write returns the DatabaseError response instead
MarkFailed(r, text, db_ok, response) ==
    IF error_too_long(text) THEN Return(r, ErrorTooLong) /\ logs' = logs
    ELSE IF ~db_ok THEN Return(r, StoreFailure) /\ logs' = logs
    ELSE
        /\ logs' = update_log_status(logs, req[r].log_id, "Failed", text)
        /\ Return(r, response)

\* encode_chat_message, then client.body(hex_data).send().await
Dispatch(r) ==
    /\ req[r].pc = "dispatch"
    /\ \/ \* encoding fails
          Return(r, RequestFailed)
       \/ \* Ok(resp)
          Goto(r, "log_success")
       \/ \* Err(e)
          \E len \in TransportErrorLengths :
             req' = [req EXCEPT ![r].pc = "log_transport_failed", ![r].e = len]
    /\ UNCHANGED <<now, store, counters, usage_task, bumped_at, translation>>

\* Ok(resp): update_log_status(log_id, Success, None)
LogSuccess(r) ==
    /\ req[r].pc = "log_success"
    /\ \E db_ok \in BOOLEAN :
         IF ~db_ok THEN Return(r, StoreFailure) /\ logs' = logs
         ELSE
             /\ logs' = update_log_status(logs, req[r].log_id, "Success", NoText)
             /\ Goto(r, "release")
    /\ UNCHANGED <<now, users, tokens, counters, usage_task, bumped_at, translation>>

\* Err(e): update_log_status(log_id, Failed, Some(e.to_string()))
LogTransportFailed(r) ==
    /\ req[r].pc = "log_transport_failed"
    /\ \E db_ok \in BOOLEAN : MarkFailed(r, req[r].e, db_ok, RequestFailed)
    /\ UNCHANGED <<now, users, tokens, counters, usage_task, bumped_at, translation>>

\* state.lock(): active_requests -= 1; then the branch on request.stream
\* and, for a stream, on AppConfig::get_stream_check()
Release(r) ==
    /\ req[r].pc = "release"
    /\ active_requests' = active_requests - 1
    /\ total_requests' = total_requests
    /\ \E is_stream \in BOOLEAN, enable_stream_check \in BOOLEAN :
         IF ~is_stream THEN Goto(r, "aggregate")
         ELSE IF enable_stream_check THEN Goto(r, "first_chunk")
         ELSE Return(r, StreamOk)
    /\ UNCHANGED <<now, store, usage_task, bumped_at, translation>>

\* streaming pre-flight: stream.next().await and parse_stream_data(&chunk)
FirstChunk(r) ==
    /\ req[r].pc = "first_chunk"
    /\ \/ \* Some(Err(e)): failed to read the chunk
          Return(r, RequestFailed)
       \/ \* Some(Ok(chunk)) parsing to anything but ChatError
          Return(r, StreamOk)
       \/ \* Some(Ok(chunk)) parsing to Err(StreamError::ChatError(error))
          \E code \in UpstreamErrorCodes :
             req' = [req EXCEPT ![r].pc = "log_chat_error", ![r].error_respone = code]
       \/ \* None
          Goto(r, "log_empty_stream")
    /\ UNCHANGED <<now, store, counters, usage_task, bumped_at, translation>>

\* update_log_status(log_id, Failed, Some(error_respone.native_code()))
LogChatError(r) ==
    /\ req[r].pc = "log_chat_error"
    /\ \E db_ok \in BOOLEAN, len \in NativeCodeLengths :
         MarkFailed(r, len, db_ok, UpstreamError(req[r].error_respone))
    /\ UNCHANGED <<now, users, tokens, counters, usage_task, bumped_at, translation>>

\* update_log_status(log_id, Failed, Some("Empty stream response"))
LogEmptyStream(r) ==
    /\ req[r].pc = "log_empty_stream"
    /\ \E db_ok \in BOOLEAN :
         MarkFailed(r, EMPTY_STREAM_RESPONSE, db_ok, RequestFailed)
    /\ UNCHANGED <<now, users, tokens, counters, usage_task, bumped_at, translation>>

\* variant of the non-streaming loop without the full_text.is_empty() branch
Aggregate_no_empty_branch(r) ==
    /\ req[r].pc = "aggregate"
    /\ \/ Return(r, RequestFailed)
       \/ \E code \in UpstreamErrorCodes : Return(r, UpstreamError(code))
       \/ \E text \in FullTextLengths, debug_prompt \in DebugPromptLengths :
             req' = [req EXCEPT ![r].pc = "log_prompt",
                                ![r].full_text = text,
                                ![r].prompt = debug_prompt]
    /\ UNCHANGED <<now, store, counters, usage_task, bumped_at, translation>>

\* non-streaming: the `while let Some(chunk)` loop over the response body,
\* then the branch on full_text.is_empty()
Aggregate(r) ==
    /\ req[r].pc = "aggregate"
    /\ \/ \* a chunk fails to read
          Return(r, RequestFailed)
       \/ \* a frame parses to Err(StreamError::ChatError(error))
          \E code \in UpstreamErrorCodes : Return(r, UpstreamError(code))
       \/ \* the body ends; full_text is empty or not, a Debug frame was seen or not
          \E text \in FullTextLengths, debug_prompt \in DebugPromptLengths :
             req' = [req EXCEPT ![r].pc = IF text = 0 THEN "log_empty" ELSE "log_prompt",
                                ![r].full_text = text,
                                ![r].prompt = debug_prompt]
    /\ UNCHANGED <<now, store, counters, usage_task, bumped_at, translation>>

\* update_log_status(log_id, Failed, Some("Empty response received"))
LogEmpty(r) ==
    /\ req[r].pc = "log_empty"
    /\ \E db_ok \in BOOLEAN :
         IF ~db_ok THEN Return(r, StoreFailure) /\ logs' = logs
         ELSE
             /\ logs' = update_log_status(logs, req[r].log_id, "Failed",
                                          EMPTY_RESPONSE_RECEIVED)
             /\ Goto(r, "clear_prompt")
    /\ UNCHANGED <<now, users, tokens, counters, usage_task, bumped_at, translation>>

\* update_log_prompt(log_id, None), then the empty-response error
ClearPrompt(r) ==
    /\ req[r].pc = "clear_prompt"
    /\ \E db_ok \in BOOLEAN :
         IF ~db_ok THEN Return(r, StoreFailure) /\ logs' = logs
         ELSE
             /\ logs' = update_log_prompt(logs, req[r].log_id, NoText)
             /\ Return(r, RequestFailed)
    /\ UNCHANGED <<now, users, tokens, counters, usage_task, bumped_at, translation>>

\* update_log_prompt(log_id, prompt), then the aggregate response
LogPrompt(r) ==
    /\ req[r].pc = "log_prompt"
    /\ \E db_ok \in BOOLEAN :
         IF ~db_ok THEN Return(r, StoreFailure) /\ logs' = logs
         ELSE
             /\ logs' = update_log_prompt(logs, req[r].log_id, req[r].prompt)
             /\ Return(r, JsonOk)
    /\ UNCHANGED <<now, users, tokens, counters, usage_task, bumped_at, translation>>

\* ------------------------------------------------------ background task
\* the spawned task: get_user_usage(..).await, which yields Some or None,
\* then db::update_log_usage(log_id, usage), whose error is printed and goes
\* nowhere else.  The task then is gone: "done", or "failed" after an error.
UsageTask(r) ==
    /\ usage_task[r] = "spawned"
    /\ \E usage \in {"None", "Some"} :
         LET res == update_log_usage(logs, req[r].log_id, usage)
         IN /\ logs' = res.logs
            /\ usage_task' = [usage_task EXCEPT ![r] = IF res.ok THEN "done" ELSE "failed"]
    /\ UNCHANGED <<now, users, tokens, counters, req, bumped_at, translation>>

\* ----------------------------------------------------------------- clock
Tick ==
    /\ now < MaxTime
    /\ now' = now + 1
    /\ UNCHANGED <<store, counters, req, usage_task, bumped_at, translation>>

Next ==
    \/ Tick
    \/ \E r \in RequestIds :
         \/ Authenticate(r)
         \/ SelectToken(r)
         \/ InsertLog(r)
         \/ Admit(r)
         \/ CountLogs(r)
         \/ CleanLogs(r)
         \/ BumpToken(r)
         \/ Dispatch(r)
         \/ LogSuccess(r)
         \/ LogTransportFailed(r)
         \/ Release(r)
         \/ FirstChunk(r)
         \/ LogChatError(r)
         \/ LogEmptyStream(r)
         \/ Aggregate(r)
         \/ LogEmpty(r)
         \/ ClearPrompt(r)
         \/ LogPrompt(r)
         \/ UsageTask(r)

Spec == Init /\ [][Next]_vars

\* ======================================================= stream translator
\* The response body of one request, chunk by chunk: the streaming closure
\* and the non-streaming loop of handle_chat.  Content texts are kept as
\* strings here (their order matters), Debug payloads by their length.
\*
\* The upstream sends at most MaxFrames frames of FrameLen bytes; a byte is
\* the pair of its frame and its position in it.
Frame(kind, texts, debug_prompt) ==
    [kind |-> kind, texts |-> texts, debug_prompt |-> debug_prompt]

Frames ==
    {Frame("StreamStart", <<>>, NoText),
     Frame("Content", <<"a">>, NoText),
     Frame("Content", <<"b", "c">>, NoText),
     Frame("StreamEnd", <<>>, NoText),
     Frame("Debug", <<>>, 30),
     Frame("Debug", <<>>, 31),
     Frame("ChatError", <<>>, NoText),
     Frame("Malformed", <<>>, NoText)}

frame_bytes(f) == [k \in 1..FrameLen |-> <<f, k>>]

Incomplete == Frame("Incomplete", <<>>, NoText)
ParseError == Frame("Err", <<>>, NoText)

\* parse_stream_data(&buffer): the message of the frame the buffer holds;
\* Incomplete while the buffer is the beginning of a frame and not yet all
\* of it; an error for a frame that is malformed and for any other bytes
parse_stream_data(buf) ==
    IF \E f \in Frames : buf = frame_bytes(f)
    THEN LET f == CHOOSE f \in Frames : buf = frame_bytes(f)
         IN IF f.kind = "Malformed" THEN ParseError ELSE f
    ELSE IF \E f \in Frames, k \in 0..(FrameLen - 1) :
                buf = SubSeq(frame_bytes(f), 1, k)
    THEN Incomplete
    ELSE ParseError

\* the `data:` frames of the response body, by the fields the translator
\* decides: whether model and role are present, and the content
RoleHeader == [kind |-> "header", model |-> TRUE, role |-> TRUE, content |-> ""]
Delta(text, is_first) ==
    [kind |-> "delta", model |-> is_first, role |-> is_first, content |-> text]
FinishChunk == [kind |-> "finish", model |-> FALSE, role |-> FALSE, content |-> "none"]
DoneSentinel == [kind |-> "[DONE]", model |-> FALSE, role |-> FALSE, content |-> "none"]

\* the translator state of the streaming closure
Translator(buf, start, text, out) ==
    [buffer |-> buf, is_start |-> start, full_text |-> text, body |-> out]

\* `for text in texts`: one delta per text; is_start is read for each and
\* stored false by the first
RECURSIVE content_deltas(_, _)
content_deltas(texts, is_first) ==
    IF texts = <<>> THEN <<>>
    ELSE <<Delta(Head(texts), is_first)>> \o content_deltas(Tail(texts), FALSE)

\* variant of the Content arm that never stores false into is_start
on_content_always_first(tr, texts) ==
    [tr EXCEPT !.buffer = <<>>,
               !.full_text = @ \o texts,
               !.body = @ \o [i \in 1..Len(texts) |-> Delta(texts[i], tr.is_start)]]

\* Ok(StreamMessage::Content(texts))
on_content(tr, texts) ==
    [tr EXCEPT !.buffer = <<>>,
               !.full_text = @ \o texts,
               !.body = @ \o content_deltas(texts, tr.is_start),
               !.is_start = IF texts = <<>> THEN @ ELSE FALSE]

\* Ok(StreamMessage::StreamStart)
on_stream_start(tr) ==
    [tr EXCEPT !.buffer = <<>>, !.is_start = TRUE, !.body = Append(@, RoleHeader)]

\* Ok(StreamMessage::StreamEnd), include_finish_reason = AppConfig::get_stop_stream()
on_stream_end(tr, include_finish_reason) ==
    [tr EXCEPT !.buffer = <<>>,
               !.body = @ \o (IF include_finish_reason
                              THEN <<FinishChunk, DoneSentinel>>
                              ELSE <<DoneSentinel>>)]

\* variant of the Incomplete arm that clears the buffer like the other arms
on_incomplete_clears(tr, buf) == [tr EXCEPT !.buffer = <<>>]

\* Ok(StreamMessage::Incomplete): the buffer, already extended by the chunk,
\* is kept
on_incomplete(tr, buf) == [tr EXCEPT !.buffer = buf]

\* variant of the Debug arm that sends the payload on as a content delta
on_debug_forwards(tr, debug_prompt) ==
    [tr EXCEPT !.buffer = <<>>, !.body = Append(@, Delta(debug_prompt, FALSE))]

\* Ok(StreamMessage::Debug(debug_prompt)): the log write is made by the step
on_debug(tr, debug_prompt) == [tr EXCEPT !.buffer = <<>>]

\* variant of the Err arm that does not clear the buffer
on_error_keeps(tr) == tr

\* Err(e), a ChatError frame included
on_error(tr) == [tr EXCEPT !.buffer = <<>>]

\* one call of the streaming closure: extend the buffer, parse, match
stream_step(tr, chunk, include_finish_reason) ==
    LET buf == tr.buffer \o chunk
        msg == parse_stream_data(buf)
    IN CASE msg.kind = "Content"     -> on_content(tr, msg.texts)
         [] msg.kind = "StreamStart" -> on_stream_start(tr)
         [] msg.kind = "StreamEnd"   -> on_stream_end(tr, include_finish_reason)
         [] msg.kind = "Incomplete"  -> on_incomplete(tr, buf)
         [] msg.kind = "Debug"       -> on_debug(tr, msg.debug_prompt)
         [] OTHER                    -> on_error(tr)

\* the locals of the non-streaming loop
Aggregator(buf, text, debug_prompt) ==
    [buffer |-> buf, full_text |-> text, prompt |-> debug_prompt]

\* one turn of the non-streaming loop for a chunk that was read; a ChatError
\* frame leaves the loop by `return Err(..)`, which the step models
aggregate_step(ag, chunk) ==
    LET buf == ag.buffer \o chunk
        msg == parse_stream_data(buf)
    IN CASE msg.kind = "Content" ->
              [ag EXCEPT !.full_text = @ \o msg.texts, !.buffer = <<>>]
         [] msg.kind = "Incomplete" -> [ag EXCEPT !.buffer = buf]
         [] msg.kind = "Debug" ->
              [ag EXCEPT !.prompt = msg.debug_prompt, !.buffer = <<>>]
         [] msg.kind = "ChatError" -> [ag EXCEPT !.buffer = buf]
         [] OTHER -> [ag EXCEPT !.buffer = <<>>]

\* what stream.next() can yield as (chunk, bytes of the frame still to
\* come): the rest of the frame in flight, or a new frame, whole or cut
\* after any of its bytes
NextChunks ==
    IF upstream # <<>> THEN {<<upstream, <<>>>>}
    ELSE IF Len(events) >= MaxFrames THEN {}
    ELSE {<<SubSeq(frame_bytes(f), 1, k), SubSeq(frame_bytes(f), k + 1, FrameLen)>> :
             f \in Frames, k \in 1..FrameLen}

Recorded(ev, msg) == IF msg.kind = "Incomplete" THEN ev ELSE Append(ev, msg)

\* the request whose body is translated: its handler has sent the request
\* upstream and marked its log row Success; a streaming one has returned
\* the response whose body the closure fills
InitStream ==
    /\ now = 0
    /\ users = InitUsers
    /\ tokens = update_token_status(
                    InitTokens([status |-> "Active", pending_at |-> 0]), 1, "Pending", 0)
    /\ logs = update_log_status(insert_log(InitLogs, 1), LOG_KEEP, "Success", NoText)
    /\ total_requests = 1
    /\ active_requests = 0
    /\ \E is_stream \in BOOLEAN :
         req = [r \in RequestIds |->
                  IF r = 1
                  THEN [NewRequest EXCEPT
                           !.pc = IF is_stream THEN "streaming" ELSE "aggregating",
                           !.user = 1,
                           !.token_info = [id |-> 1],
                           !.log_id = LOG_KEEP,
                           !.resp = IF is_stream THEN StreamOk ELSE NoResp]
                  ELSE NewRequest]
    /\ usage_task = [r \in RequestIds |-> "none"]
    /\ bumped_at = [id \in TokenIds |-> IF id = 1 THEN 0 ELSE NoTime]
    /\ upstream = <<>>
    /\ buffer = <<>>
    /\ is_start = TRUE
    /\ full_text = <<>>
    /\ body = <<>>
    /\ events = <<>>

\* the streaming closure called for one chunk.  update_log_prompt of the
\* Debug arm may fail: the error is printed and the stream goes on.
StreamNext(r) ==
    /\ req[r].pc = "streaming"
    /\ \E pair \in NextChunks, include_finish_reason \in BOOLEAN, db_ok \in BOOLEAN :
         LET msg == parse_stream_data(buffer \o pair[1])
             tr == stream_step(Translator(buffer, is_start, full_text, body),
                               pair[1], include_finish_reason)
         IN /\ upstream' = pair[2]
            /\ buffer' = tr.buffer
            /\ is_start' = tr.is_start
            /\ full_text' = tr.full_text
            /\ body' = tr.body
            /\ events' = Recorded(events, msg)
            /\ logs' = IF msg.kind = "Debug" /\ db_ok
                       THEN update_log_prompt(logs, req[r].log_id, msg.debug_prompt)
                       ELSE logs
    /\ UNCHANGED <<now, users, tokens, counters, req, usage_task, bumped_at>>

\* the closure called for a chunk that failed to read:
\* chunk.unwrap_or_default() is the empty chunk
StreamReadError(r) ==
    /\ req[r].pc = "streaming"
    /\ \E include_finish_reason \in BOOLEAN :
         LET msg == parse_stream_data(buffer)
             tr == stream_step(Translator(buffer, is_start, full_text, body),
                               <<>>, include_finish_reason)
         IN /\ buffer' = tr.buffer
            /\ is_start' = tr.is_start
            /\ full_text' = tr.full_text
            /\ body' = tr.body
            /\ events' = Recorded(events, msg)
    /\ UNCHANGED <<now, store, counters, req, usage_task, bumped_at, upstream>>

\* the upstream body ends: the response body ends with it
StreamClosed(r) ==
    /\ req[r].pc = "streaming"
    /\ Goto(r, "closed")
    /\ UNCHANGED <<now, store, counters, usage_task, bumped_at, translation>>

\* one turn of the non-streaming loop
AggregateNext(r) ==
    /\ req[r].pc = "aggregating"
    /\ \E pair \in NextChunks :
         LET msg == parse_stream_data(buffer \o pair[1])
             ag == aggregate_step(Aggregator(buffer, full_text, req[r].prompt), pair[1])
         IN /\ upstream' = pair[2]
            /\ buffer' = ag.buffer
            /\ full_text' = ag.full_text
            /\ events' = Recorded(events, msg)
            /\ IF msg.kind = "ChatError"
               THEN \E code \in UpstreamErrorCodes : Return(r, UpstreamError(code))
               ELSE req' = [req EXCEPT ![r].prompt = ag.prompt]
    /\ UNCHANGED <<now, store, counters, usage_task, bumped_at, is_start, body>>

\* a chunk of the non-streaming body fails to read
AggregateReadError(r) ==
    /\ req[r].pc = "aggregating"
    /\ Return(r, RequestFailed)
    /\ UNCHANGED <<now, store, counters, usage_task, bumped_at, translation>>

\* stream.next() is None: the loop ends, then the branch on
\* full_text.is_empty()
AggregateEnd(r) ==
    /\ req[r].pc = "aggregating"
    /\ req' = [req EXCEPT ![r].pc = IF full_text = <<>> THEN "log_empty" ELSE "log_prompt",
                          ![r].full_text = Len(full_text)]
    /\ UNCHANGED <<now, store, counters, usage_task, bumped_at, translation>>

NextStream ==
    \E r \in RequestIds :
        \/ StreamNext(r)
        \/ StreamReadError(r)
        \/ StreamClosed(r)
        \/ AggregateNext(r)
        \/ AggregateReadError(r)
        \/ AggregateEnd(r)
        \/ LogEmpty(r)
        \/ ClearPrompt(r)
        \/ LogPrompt(r)

SpecStream == InitStream /\ [][NextStream]_vars

\* ============================================================ log pruning
\* clean_user_logs applied to log tables of every shape.

\* no request in flight, the translator idle
Quiescent ==
    /\ now = 0
    /\ users = InitUsers
    /\ total_requests = 0
    /\ active_requests = 0
    /\ req = [r \in RequestIds |-> NewRequest]
    /\ usage_task = [r \in RequestIds |-> "none"]
    /\ bumped_at = [id \in TokenIds |-> NoTime]
    /\ upstream = <<>>
    /\ buffer = <<>>
    /\ is_start = TRUE
    /\ full_text = <<>>
    /\ body = <<>>
    /\ events = <<>>

RECURSIVE LogTables(_)
\* the tables of n rows, in timestamp order, of credentials 1 (user 1) and
\* 3 (user 2), in any status
LogTables(n) ==
    IF n = 0 THEN {<<>>}
    ELSE {Append(t, LogRow(token_id, status, NoText, NoText)) :
             t \in LogTables(n - 1), token_id \in {1, 3}, status \in LogStatus}

\* user 1 with LOG_KEEP + 50 rows, none of them Deleted: the oldest
\* LOG_KEEP - 1 archived, the others in the table
LongTable ==
    [archived |-> [t \in TokenIds |-> IF t = 1 THEN LOG_KEEP - 1 ELSE 0],
     rows |-> [i \in 1..51 |-> LogRow(1, "Success", NoText, NoText)]]

\* the keep_n a table can be pruned to (archived rows are never marked)
KeepChoices(lg) == IF archived_total(lg) = 0 THEN 0..MaxKeep ELSE {LOG_KEEP}

InitPrune ==
    /\ Quiescent
    /\ tokens = InitTokens([status |-> "Active", pending_at |-> 0])
    /\ \/ \E n \in 0..MaxRows : \E t \in LogTables(n) :
             logs = [archived |-> [id \in TokenIds |-> 0], rows |-> t]
       \/ logs = LongTable

\* db::clean_user_logs(user_id, keep_n): one transaction
PruneClean(user_id, keep_n) ==
    /\ \E db_ok \in BOOLEAN :
         logs' = IF db_ok THEN clean_user_logs(logs, tokens, user_id, keep_n) ELSE logs
    /\ UNCHANGED <<now, users, tokens, counters, req, usage_task, bumped_at, translation>>

NextPrune == \E user_id \in {1, 2} : \E keep_n \in KeepChoices(logs) : PruneClean(user_id, keep_n)

SpecPrune == InitPrune /\ [][NextPrune]_vars

\* ============================================================ reclamation
\* delete_expired_tokens applied to stores of every shape.

\* variant of delete_expired_tokens that also takes the Active credentials
delete_expired_and_active_tokens(tk, lg) ==
    LET gone == {id \in DOMAIN tk : tk[id].status \in {"Expired", "Active"}}
        kept(row) == row.token_id \notin gone
    IN [tokens |-> [id \in DOMAIN tk \ gone |-> tk[id]],
        logs |-> [archived |-> [t \in DOMAIN lg.archived |->
                                  IF t \in gone THEN 0 ELSE lg.archived[t]],
                  rows |-> SelectSeq(lg.rows, kept)]]

\* variant of delete_expired_tokens that leaves the log rows in place
delete_expired_tokens_only(tk, lg) ==
    [tokens |-> [id \in {i \in DOMAIN tk : tk[i].status # "Expired"} |-> tk[id]],
     logs |-> lg]

\* delete_expired_tokens, one transaction:
\*   DELETE FROM logs WHERE token_id IN (SELECT id FROM tokens WHERE status = Expired)
\*   DELETE FROM tokens WHERE status = Expired
delete_expired_tokens(tk, lg) ==
    LET expired == {id \in DOMAIN tk : tk[id].status = "Expired"}
        kept(row) == row.token_id \notin expired
    IN [tokens |-> [id \in DOMAIN tk \ expired |-> tk[id]],
        logs |-> [archived |-> [t \in DOMAIN lg.archived |->
                                  IF t \in expired THEN 0 ELSE lg.archived[t]],
                  rows |-> SelectSeq(lg.rows, kept)]]

RECURSIVE ReclaimTables(_)
\* the tables of n rows of any credential
ReclaimTables(n) ==
    IF n = 0 THEN {<<>>}
    ELSE {Append(t, LogRow(token_id, status, NoText, NoText)) :
             t \in ReclaimTables(n - 1), token_id \in TokenIds,
             status \in {"Success", "Deleted"}}

InitReclaim ==
    /\ now \in 0..MaxTime
    /\ users = InitUsers
    /\ total_requests = 0
    /\ active_requests = 0
    /\ req = [r \in RequestIds |-> NewRequest]
    /\ usage_task = [r \in RequestIds |-> "none"]
    /\ bumped_at = [id \in TokenIds |-> NoTime]
    /\ upstream = <<>>
    /\ buffer = <<>>
    /\ is_start = TRUE
    /\ full_text = <<>>
    /\ body = <<>>
    /\ events = <<>>
    /\ \E st \in [TokenIds -> TokenStatus] :
         tokens = [id \in TokenIds |->
                     TokenRow([status |-> st[id], pending_at |-> 0], IF id = 3 THEN 2 ELSE 1)]
    /\ \E n \in 0..MaxReclaimRows : \E t \in ReclaimTables(n) :
         logs = [archived |-> [id \in TokenIds |-> 0], rows |-> t]

\* db::delete_expired_tokens(): the scheduled run; a failed transaction
\* changes nothing
Reclaim ==
    /\ \E db_ok \in BOOLEAN :
         LET after == delete_expired_tokens(tokens, logs)
         IN /\ tokens' = IF db_ok THEN after.tokens ELSE tokens
            /\ logs' = IF db_ok THEN after.logs ELSE logs
    /\ UNCHANGED <<now, users, counters, req, usage_task, bumped_at, translation>>

NextReclaim == Reclaim

SpecReclaim == InitReclaim /\ [][NextReclaim]_vars

\* ===================================================== credential round trip
\* insert_token followed by get_token_by_token, for credentials of every
\* shape.  A text is its content and its length.
Text(text, len) == [text |-> text, len |-> len]
NullText == Text("NULL", 0)

Secrets == {Text("s1", 10), Text("s2", MAX_TOKEN_LENGTH), Text("s3", MAX_TOKEN_LENGTH + 1)}
Checksums == {Text("c1", MAX_CHECKSUM_LENGTH), Text("c2", MAX_CHECKSUM_LENGTH + 1)}
Aliases == {NullText, Text("a1", MAX_ALIAS_LENGTH), Text("a2", MAX_ALIAS_LENGTH + 1)}

\* struct TokenInfo
TokenInfo(id, create_at, token, checksum, alias, status, pengding_at, user_id, is_public, usage) ==
    [id |-> id, create_at |-> create_at, token |-> token, checksum |-> checksum,
     alias |-> alias, status |-> status, pengding_at |-> pengding_at,
     user_id |-> user_id, is_public |-> is_public, usage |-> usage]

TokenInfos ==
    {TokenInfo(NoId, create_at, token, checksum, alias, status, pengding_at, user_id, is_public, usage) :
        create_at \in 0..MaxTime, token \in Secrets, checksum \in Checksums,
        alias \in Aliases, status \in {"Pending", "Active"}, pengding_at \in 0..MaxTime,
        user_id \in {1, 2}, is_public \in BOOLEAN, usage \in {"NULL", "usage"}}

\* the columns the INSERT names, in the order of its placeholders ?1..?9
INSERT_COLUMNS ==
    <<"create_at", "token", "checksum", "alias", "status", "pengding_at",
      "user_id", "is_public", "usage">>

\* the values of params![..], in order
insert_params(token_info, t) ==
    <<t, token_info.token, token_info.checksum, token_info.alias, token_info.status,
      token_info.user_id, token_info.is_public, token_info.usage>>

InsertOk(id, tk) == [ok |-> TRUE, id |-> id, err |-> "none", tokens |-> tk]
InsertErr(err, tk) == [ok |-> FALSE, id |-> NoId, err |-> err, tokens |-> tk]

\* UNIQUE(token), UNIQUE(alias, user_id): NULL aliases never collide
collides(tk, row) ==
    \E id \in DOMAIN tk :
        \/ tk[id].token = row.token
        \/ row.alias # NullText /\ tk[id].alias = row.alias /\ tk[id].user_id = row.user_id

\* insert_token: the length checks, then the INSERT with its values bound to
\* the placeholders by position; a statement whose number of values is not
\* the number of its placeholders is refused (InvalidParameterCount)
insert_token(tk, token_info, t) ==
    IF token_info.token.len > MAX_TOKEN_LENGTH THEN InsertErr("Token too long", tk)
    ELSE IF token_info.checksum.len > MAX_CHECKSUM_LENGTH THEN InsertErr("Checksum too long", tk)
    ELSE IF token_info.alias # NullText /\ token_info.alias.len > MAX_ALIAS_LENGTH
    THEN InsertErr("Alias too long", tk)
    ELSE LET p == insert_params(token_info, t) IN
         IF Len(p) # Len(INSERT_COLUMNS) THEN InsertErr("InvalidParameterCount", tk)
         ELSE LET id == Cardinality(DOMAIN tk) + 1
                  row == TokenInfo(id, p[1], p[2], p[3], p[4], p[5], p[6], p[7], p[8], p[9])
              IN IF collides(tk, row) THEN InsertErr("constraint failed", tk)
                 ELSE InsertOk(id, [i \in DOMAIN tk \cup {id} |-> IF i = id THEN row ELSE tk[i]])

\* row_to_token_info: the ten columns of the SELECT, in order
row_to_token_info(row) ==
    TokenInfo(row.id, row.create_at, row.token, row.checksum, row.alias, row.status,
              row.pengding_at, row.user_id, row.is_public, row.usage)

\* get_token_by_token: Ok(Some(row)) as <<row>>, Ok(None) as <<>>
get_token_by_token(tk, token) ==
    IF token.len > MAX_TOKEN_LENGTH THEN [ok |-> FALSE, found |-> <<>>]
    ELSE LET ids == {id \in DOMAIN tk : tk[id].token = token}
         IN [ok |-> TRUE,
             found |-> IF ids = {} THEN <<>>
                       ELSE <<row_to_token_info(tk[CHOOSE id \in ids : TRUE])>>]

\* the tokens table before the insert: empty, or one credential of user 1
StoredTokens ==
    {<<>>,
     <<TokenInfo(1, 0, Text("s1", 10), Text("c1", MAX_CHECKSUM_LENGTH),
                 Text("a1", MAX_ALIAS_LENGTH), "Active", 0, 1, FALSE, "NULL")>>}

\* a caller about to insert token_info and then fetch it by its secret
RoundTrip(pc, token_info, inserted, fetched) ==
    [pc |-> pc, token_info |-> token_info, inserted |-> inserted, fetched |-> fetched]

InitRoundTrip ==
    /\ now \in 0..MaxTime
    /\ users = InitUsers
    /\ logs = [archived |-> [id \in TokenIds |-> 0], rows |-> <<>>]
    /\ total_requests = 0
    /\ active_requests = 0
    /\ usage_task = [r \in RequestIds |-> "none"]
    /\ bumped_at = [id \in TokenIds |-> NoTime]
    /\ upstream = <<>>
    /\ buffer = <<>>
    /\ is_start = TRUE
    /\ full_text = <<>>
    /\ body = <<>>
    /\ events = <<>>
    /\ tokens \in StoredTokens
    /\ \E token_info \in TokenInfos :
         req = [r \in RequestIds |->
                  RoundTrip(IF r = 1 THEN "insert" ELSE "idle", token_info,
                            InsertErr("none", <<>>), [ok |-> FALSE, found |-> <<>>])]

\* db::insert_token(&token_info)
InsertToken(r) ==
    /\ req[r].pc = "insert"
    /\ LET res == insert_token(tokens, req[r].token_info, now)
       IN /\ tokens' = res.tokens
          /\ req' = [req EXCEPT ![r].pc = "get", ![r].inserted = [res EXCEPT !.tokens = <<>>]]
    /\ UNCHANGED <<now, users, logs, counters, usage_task, bumped_at, translation>>

\* db::get_token_by_token(&token_info.token)
GetToken(r) ==
    /\ req[r].pc = "get"
    /\ req' = [req EXCEPT ![r].pc = "done",
                          ![r].fetched = get_token_by_token(tokens, req[r].token_info.token)]
    /\ UNCHANGED <<now, users, tokens, logs, counters, usage_task, bumped_at, translation>>

NextRoundTrip == \E r \in RequestIds : InsertToken(r) \/ GetToken(r)

SpecRoundTrip == InitRoundTrip /\ [][NextRoundTrip]_vars

\* ======================================================== credential store
\* The tokens table with its status column as stored (an INTEGER), the
\* status write, and the two reads that leave the process: the alias lookup
\* of get_user_info and the logs response of handle_logs_post.

\* variant of to_sql that numbers the statuses from 1
to_sql_one_based(status) ==
    CASE status = "Pending" -> 1
      [] status = "Active" -> 2
      [] status = "Expired" -> 3
      [] status = "Deleted" -> 4

\* impl ToSql for TokenStatus
to_sql(status) ==
    CASE status = "Pending" -> 0
      [] status = "Active" -> 1
      [] status = "Expired" -> 2
      [] status = "Deleted" -> 3

\* impl FromSql for TokenStatus: Ok(status) or Err(OutOfRange(value))
column_result(value) ==
    CASE value = 0 -> [ok |-> TRUE, status |-> "Pending"]
      [] value = 1 -> [ok |-> TRUE, status |-> "Active"]
      [] value = 2 -> [ok |-> TRUE, status |-> "Expired"]
      [] value = 3 -> [ok |-> TRUE, status |-> "Deleted"]
      [] OTHER -> [ok |-> FALSE, status |-> "OutOfRange"]

\* the values an INTEGER column can be asked to decode
RawStatus == (0 - 1)..MaxRawStatus

\* the SQL type of each column of tokens
ColumnType(column) ==
    CASE column \in {"id", "status", "user_id"} -> "INTEGER"
      [] column \in {"create_at", "pengding_at"} -> "DATETIME"
      [] column \in {"token", "checksum", "alias", "usage"} -> "TEXT"
      [] column = "is_public" -> "BOOLEAN"

\* the columns of the two SELECT lists of get_token_by_alias_and_user
SELECT_WITH_TARGET ==
    <<"id", "create_at", "token", "checksum", "alias", "status",
      "user_id", "is_public", "usage">>
SELECT_TOKEN ==
    <<"id", "create_at", "token", "checksum", "alias", "status",
      "pengding_at", "user_id", "is_public", "usage">>

\* row_to_token_info reads row.get(0) .. row.get(9) as the fields of
\* TokenInfo in order: it fails on a row that is shorter or that holds a
\* value of another type at one of these positions
row_readable(columns) ==
    /\ Len(columns) >= Len(SELECT_TOKEN)
    /\ \A i \in DOMAIN SELECT_TOKEN : ColumnType(columns[i]) = ColumnType(SELECT_TOKEN[i])

LookupNone == [ok |-> TRUE, found |-> <<>>]
LookupErr == [ok |-> FALSE, found |-> <<>>]
LookupSome(id, row) ==
    [ok |-> TRUE,
     found |-> <<[id |-> id, alias |-> row.alias,
                  status |-> column_result(row.status).status, user_id |-> row.user_id]>>]

\* variant of the lookup in which an ordinary user's target owner is used
lookup_trusts_target(tk, alias, current_user_id, target_user_id) ==
    LET owner == IF target_user_id # NoUser THEN target_user_id ELSE current_user_id
        rows == {id \in DOMAIN tk :
                    /\ tk[id].alias = alias
                    /\ tk[id].status \in {to_sql("Active"), to_sql("Pending")}
                    /\ tk[id].user_id = owner}
    IN IF rows = {} THEN LookupNone
       ELSE LET id == CHOOSE i \in rows : \A j \in rows : i <= j IN LookupSome(id, tk[id])

\* get_token_by_alias_and_user: the administrator (id 0) asks for any
\* owner's credential, or for the target owner's; an ordinary user for
\* their own.  query_row maps the first row (lowest rowid) and .optional()
\* turns "no rows" into Ok(None).
get_token_by_alias_and_user(tk, alias, current_user_id, target_user_id) ==
    LET is_admin == current_user_id = 0
        columns == IF is_admin /\ target_user_id # NoUser
                   THEN SELECT_WITH_TARGET ELSE SELECT_TOKEN
        rows == {id \in DOMAIN tk :
                    /\ tk[id].alias = alias
                    /\ tk[id].status \in {to_sql("Active"), to_sql("Pending")}
                    /\ IF is_admin
                       THEN target_user_id # NoUser => tk[id].user_id = target_user_id
                       ELSE tk[id].user_id = current_user_id}
    IN IF rows = {} THEN LookupNone
       ELSE LET id == CHOOSE i \in rows : \A j \in rows : i <= j
            IN IF row_readable(columns) /\ column_result(tk[id].status).ok
               THEN LookupSome(id, tk[id])
               ELSE LookupErr

\* variant of is_hide that hides nothing
is_hide_never(status) == FALSE

\* TokenInfo::is_hide
is_hide(status) == status = "Deleted"

\* get_logs_by_user_id, newest first, serialized as handle_logs_post sends
\* it: token_info is skipped when is_hide.  token_info stands for the
\* secret and the checksum of the credential with that id.
logs_response(lg, tk, user_id) ==
    LET ids == {i \in DOMAIN lg.rows :
                   lg.rows[i].token_id \in DOMAIN tk /\ tk[lg.rows[i].token_id].user_id = user_id}
        n == Cardinality(ids)
        nth(k) == CHOOSE i \in ids : Cardinality({j \in ids : j >= i}) = k
        LogInfo(i) ==
            LET t == lg.rows[i].token_id
                status == column_result(tk[t].status).status
            IN [status |-> lg.rows[i].status,
                token_info |-> IF is_hide(status) THEN <<>> ELSE <<t>>]
    IN [ok |-> \A i \in ids : column_result(tk[lg.rows[i].token_id].status).ok,
        logs |-> [k \in 1..n |-> LogInfo(nth(k))]]

StoreAliases == {"a1", "a2"}

\* a call of one of the store's callers and what it got
Call(op, alias, current_user_id, target_user_id, id, result) ==
    [op |-> op, alias |-> alias, current_user_id |-> current_user_id,
     target_user_id |-> target_user_id, id |-> id, result |-> result]
NoCall == Call("none", "none", NoUser, NoUser, NoId, LookupNone)

\* credential 1 (alias a1) and credential 3 (alias a2) of user 1, credential
\* 2 (alias a1) of user 2, in any status; one log row of each credential
InitStore ==
    /\ now = 0
    /\ users = InitUsers
    /\ \E st \in [TokenIds -> TokenStatus] :
         tokens = [id \in TokenIds |->
                     [alias |-> IF id = 3 THEN "a2" ELSE "a1",
                      status |-> to_sql(st[id]),
                      pending_at |-> 0,
                      user_id |-> IF id = 2 THEN 2 ELSE 1]]
    /\ logs = [archived |-> [id \in TokenIds |-> 0],
               rows |-> [i \in 1..3 |-> LogRow(i, "Success", NoText, NoText)]]
    /\ total_requests = 0
    /\ active_requests = 0
    /\ req = [r \in RequestIds |-> NoCall]
    /\ usage_task = [r \in RequestIds |-> "none"]
    /\ bumped_at = [id \in TokenIds |-> NoTime]
    /\ upstream = <<>>
    /\ buffer = <<>>
    /\ is_start = TRUE
    /\ full_text = <<>>
    /\ body = <<>>
    /\ events = <<>>

\* db::update_token_status(id, status) as the tokens table sees it:
\*   UPDATE tokens SET status = ?1 WHERE id = ?2, and for Pending
\*   UPDATE tokens SET pengding_at = now + 1 minute WHERE id = ?2
SetStatus(r, id, status) ==
    /\ tokens' = [tokens EXCEPT ![id].status = to_sql(status),
                                ![id].pending_at = IF status = "Pending"
                                                   THEN now + GRACE_MINUTES ELSE @]
    /\ req' = [req EXCEPT ![r] = Call("update_token_status", "none", NoUser, NoUser, id, LookupNone)]
    /\ UNCHANGED <<now, users, logs, counters, usage_task, bumped_at, translation>>

\* get_user_info: the caller authenticated as current_user_id asks for the
\* credential with this alias, of the owner query.user_id when given
GetUserInfo(r, alias, current_user_id, target_user_id) ==
    /\ req' = [req EXCEPT ![r] =
                 Call("get_user_info", alias, current_user_id, target_user_id, NoId,
                      get_token_by_alias_and_user(tokens, alias, current_user_id, target_user_id))]
    /\ UNCHANGED <<now, store, counters, usage_task, bumped_at, translation>>

\* handle_logs_post: the caller authenticated as current_user_id
LogsPost(r, current_user_id) ==
    /\ req' = [req EXCEPT ![r] =
                 Call("handle_logs_post", "none", current_user_id, NoUser, NoId,
                      logs_response(logs, tokens, current_user_id))]
    /\ UNCHANGED <<now, store, counters, usage_task, bumped_at, translation>>

NextStore ==
    \/ \E id \in TokenIds, status \in TokenStatus : SetStatus(1, id, status)
    \/ \E alias \in StoreAliases, current_user_id \in UserIds,
          target_user_id \in UserIds \cup {NoUser} :
            GetUserInfo(1, alias, current_user_id, target_user_id)
    \/ \E current_user_id \in UserIds : LogsPost(1, current_user_id)

SpecStore == InitStore /\ [][NextStore]_vars

\* ============================================================ transactions
\* update_token_status, delete_expired_tokens and clean_user_logs statement
\* by statement: conn.transaction(), the statements of the operation, and
\* tx.commit().  Each of them can fail; the `?` that returns the error drops
\* the transaction.  `tokens` and `logs` are the database as the connection
\* sees it; the connection is held until the operation returns.
Statement(sql, id, status, at, user_id, limit) ==
    [sql |-> sql, id |-> id, status |-> status, at |-> at,
     user_id |-> user_id, limit |-> limit]

Database(tk, lg) == [tokens |-> tk, logs |-> lg]

\* the statements update_token_status runs between BEGIN and COMMIT
update_token_status_statements(id, status, t) ==
    <<Statement("UPDATE tokens SET status", id, status, NoTime, NoUser, 0)>>
    \o IF status = "Pending"
       THEN <<Statement("UPDATE tokens SET pengding_at", id, status, t + GRACE_MINUTES, NoUser, 0)>>
       ELSE <<>>

\* the statements delete_expired_tokens runs
delete_expired_tokens_statements ==
    <<Statement("DELETE FROM logs", NoId, "Expired", NoTime, NoUser, 0),
      Statement("DELETE FROM tokens", NoId, "Expired", NoTime, NoUser, 0)>>

\* the statements clean_user_logs runs: the UPDATE only when the SELECT
\* returned a row
clean_user_logs_statements(db, user_id, limit) ==
    LET log_ids_empty ==
            user_archived(db.logs, db.tokens, user_id)
              + Cardinality(user_rows(db.logs, db.tokens, user_id)) <= limit
    IN <<Statement("SELECT id FROM RankedLogs", NoId, "Deleted", NoTime, user_id, limit)>>
       \o IF log_ids_empty THEN <<>>
          ELSE <<Statement("UPDATE logs SET status", NoId, "Deleted", NoTime, user_id, limit)>>

\* the effect of one statement on the database
execute(stmt, db) ==
    LET tk == db.tokens
        lg == db.logs
        expired == {id \in DOMAIN tk : tk[id].status = stmt.status}
        kept(row) == row.token_id \notin expired
        ids == user_rows(lg, tk, stmt.user_id)
        old == user_archived(lg, tk, stmt.user_id)
        marked == {i \in ids : old + Cardinality({j \in ids : j <= i}) > stmt.limit}
    IN CASE stmt.sql = "UPDATE tokens SET status" ->
              IF stmt.id \notin DOMAIN tk THEN db
              ELSE Database([tk EXCEPT ![stmt.id].status = stmt.status], lg)
         [] stmt.sql = "UPDATE tokens SET pengding_at" ->
              IF stmt.id \notin DOMAIN tk THEN db
              ELSE Database([tk EXCEPT ![stmt.id].pending_at = stmt.at], lg)
         [] stmt.sql = "DELETE FROM logs" ->
              Database(tk, [archived |-> [t \in DOMAIN lg.archived |->
                                            IF t \in expired THEN 0 ELSE lg.archived[t]],
                            rows |-> SelectSeq(lg.rows, kept)])
         [] stmt.sql = "DELETE FROM tokens" ->
              Database([id \in DOMAIN tk \ expired |-> tk[id]], lg)
         [] stmt.sql = "UPDATE logs SET status" ->
              Database(tk, [lg EXCEPT !.rows = [i \in 1..Len(lg.rows) |->
                              IF i \in marked THEN [lg.rows[i] EXCEPT !.status = stmt.status]
                              ELSE lg.rows[i]]])
         [] OTHER -> db

\* variant of drop_transaction for statements run outside a transaction
drop_transaction_keeps(before, db) == db

\* a Transaction dropped before commit() returned Ok rolls back: the
\* database is what it was at BEGIN
drop_transaction(before, db) == before

\* an operation in progress: its statements, how many of them have run, the
\* database at BEGIN, and its result once it has returned
Transaction(op, id, status, user_id, limit, statements, done, before, result) ==
    [op |-> op, id |-> id, status |-> status, user_id |-> user_id, limit |-> limit,
     statements |-> statements, done |-> done, before |-> before, result |-> result]

NoTransaction ==
    Transaction("none", NoId, "none", NoUser, 0, <<>>, 0,
                Database(<<>>, <<>>), "none")

RECURSIVE SuccessTables(_)
\* the log tables of n rows, of any credential
SuccessTables(n) ==
    IF n = 0 THEN {<<>>}
    ELSE {Append(t, LogRow(token_id, "Success", NoText, NoText)) :
             t \in SuccessTables(n - 1), token_id \in TokenIds}

InitTransactions ==
    /\ now = 0
    /\ users = InitUsers
    /\ \E st \in [TokenIds -> {"Pending", "Active", "Expired"}] :
         tokens = [id \in TokenIds |->
                     TokenRow([status |-> st[id], pending_at |-> 0], IF id = 3 THEN 2 ELSE 1)]
    /\ \E n \in 0..MaxTxRows : \E t \in SuccessTables(n) :
         logs = [archived |-> [id \in TokenIds |-> 0], rows |-> t]
    /\ total_requests = 0
    /\ active_requests = 0
    /\ req = [r \in RequestIds |-> NoTransaction]
    /\ usage_task = [r \in RequestIds |-> "none"]
    /\ bumped_at = [id \in TokenIds |-> NoTime]
    /\ upstream = <<>>
    /\ buffer = <<>>
    /\ is_start = TRUE
    /\ full_text = <<>>
    /\ body = <<>>
    /\ events = <<>>

\* conn.transaction()?: BEGIN, or Err at once
Begin(r, tx) ==
    /\ \A q \in RequestIds : req[q].result \in {"none"}
    /\ \E db_ok \in BOOLEAN :
         req' = [req EXCEPT ![r] = [tx EXCEPT !.result = IF db_ok THEN "running" ELSE "Err"]]
    /\ UNCHANGED <<now, store, counters, usage_task, bumped_at, translation>>

\* Database::update_token_status(conn, id, status), up to BEGIN
BeginUpdateTokenStatus(r, id, status) ==
    /\ id \in TokenIds
    /\ Begin(r, Transaction("update_token_status", id, status, NoUser, 0,
                            update_token_status_statements(id, status, now), 0,
                            Database(tokens, logs), "none"))

\* Database::delete_expired_tokens(conn), up to BEGIN
BeginDeleteExpiredTokens(r) ==
    /\ r \in RequestIds
    /\ Begin(r, Transaction("delete_expired_tokens", NoId, "Expired", NoUser, 0,
                            delete_expired_tokens_statements, 0,
                            Database(tokens, logs), "none"))

\* Database::clean_user_logs(conn, user_id, limit), up to BEGIN
BeginCleanUserLogs(r, user_id, limit) ==
    /\ user_id \in UserIds
    /\ Begin(r, Transaction("clean_user_logs", NoId, "Deleted", user_id, limit,
                            clean_user_logs_statements(Database(tokens, logs), user_id, limit),
                            0, Database(tokens, logs), "none"))

\* the operation's return: Ok after commit, or Err with the transaction
\* dropped
TxReturn(r, result, db) ==
    /\ tokens' = db.tokens
    /\ logs' = db.logs
    /\ req' = [req EXCEPT ![r].result = result]
    /\ UNCHANGED <<now, users, counters, usage_task, bumped_at, translation>>

\* tx.execute(..)?: the next statement runs, or fails and the operation
\* returns its error
Execute(r) ==
    /\ req[r].result = "running"
    /\ req[r].done < Len(req[r].statements)
    /\ \E db_ok \in BOOLEAN :
         IF db_ok
         THEN LET db == execute(req[r].statements[req[r].done + 1], Database(tokens, logs))
              IN /\ tokens' = db.tokens
                 /\ logs' = db.logs
                 /\ req' = [req EXCEPT ![r].done = @ + 1]
                 /\ UNCHANGED <<now, users, counters, usage_task, bumped_at, translation>>
         ELSE TxReturn(r, "Err", drop_transaction(req[r].before, Database(tokens, logs)))

\* tx.commit()?: COMMIT, or a failed COMMIT and the operation returns its
\* error
Commit(r) ==
    /\ req[r].result = "running"
    /\ req[r].done = Len(req[r].statements)
    /\ \E db_ok \in BOOLEAN :
         IF db_ok THEN TxReturn(r, "Ok", Database(tokens, logs))
         ELSE TxReturn(r, "Err", drop_transaction(req[r].before, Database(tokens, logs)))

NextTransactions ==
    \/ \E id \in TokenIds, status \in {"Pending", "Active"} : BeginUpdateTokenStatus(1, id, status)
    \/ BeginDeleteExpiredTokens(1)
    \/ \E user_id \in {1, 2}, limit \in 0..1 : BeginCleanUserLogs(1, user_id, limit)
    \/ Execute(1)
    \/ Commit(1)

SpecTransactions == InitTransactions /\ [][NextTransactions]_vars

\* ========================================================= field ceilings
\* insert_log and insert_token called with fields below, at and above their
\* ceilings.  A text of a log is its length, NoText when None.
LogInfo(token_id, prompt, model, status, error) ==
    [token_id |-> token_id, prompt |-> prompt, model |-> model,
     status |-> status, error |-> error]

LogInfos ==
    {LogInfo(1, prompt, model, "Pending", error) :
        prompt \in {NoText, MAX_PROMPT_LENGTH, MAX_PROMPT_LENGTH + 1},
        model \in {MAX_MODEL_LENGTH, MAX_MODEL_LENGTH + 1},
        error \in {NoText, MAX_ERROR_LENGTH, MAX_ERROR_LENGTH + 1}}

LogOk(id, lg) == [ok |-> TRUE, id |-> id, err |-> "none", logs |-> lg]
LogErr(err, lg) == [ok |-> FALSE, id |-> NoId, err |-> err, logs |-> lg]

\* variant of Database::insert_log whose comparisons are >=
insert_log_below_ceiling(lg, log_info) ==
    IF log_info.prompt # NoText /\ log_info.prompt >= MAX_PROMPT_LENGTH
    THEN LogErr("Prompt too long", lg)
    ELSE IF log_info.model >= MAX_MODEL_LENGTH THEN LogErr("Model name too long", lg)
    ELSE IF log_info.error # NoText /\ log_info.error >= MAX_ERROR_LENGTH
    THEN LogErr("Error message too long", lg)
    ELSE LET after == [lg EXCEPT !.rows = Append(@, LogRow(log_info.token_id,
                               log_info.status, log_info.error, log_info.prompt))]
         IN LogOk(last_insert_rowid(after), after)

\* Database::insert_log: the three length checks, then the INSERT of the
\* seven values and last_insert_rowid, in one transaction
Database_insert_log(lg, log_info) ==
    IF log_info.prompt # NoText /\ log_info.prompt > MAX_PROMPT_LENGTH
    THEN LogErr("Prompt too long", lg)
    ELSE IF log_info.model > MAX_MODEL_LENGTH THEN LogErr("Model name too long", lg)
    ELSE IF log_info.error # NoText /\ log_info.error > MAX_ERROR_LENGTH
    THEN LogErr("Error message too long", lg)
    ELSE LET after == [lg EXCEPT !.rows = Append(@, LogRow(log_info.token_id,
                               log_info.status, log_info.error, log_info.prompt))]
         IN LogOk(last_insert_rowid(after), after)

\* the credentials offered to insert_token: every mix of lengths
CeilingTokenInfos ==
    {TokenInfo(NoId, 0, token, checksum, alias, "Active", 0, 2, FALSE, "NULL") :
        token \in Secrets, checksum \in Checksums, alias \in Aliases}

\* a caller with one log and one credential to insert, in either order
CeilingCall(log_info, token_info, logged, inserted) ==
    [log_info |-> log_info, token_info |-> token_info,
     logged |-> logged, inserted |-> inserted]

NotCalled == "not called"

InitCeilings ==
    /\ now = 0
    /\ users = InitUsers
    /\ tokens \in StoredTokens
    /\ logs \in {[archived |-> [id \in TokenIds |-> 0], rows |-> rows] :
                   rows \in {<<>>, <<LogRow(1, "Success", NoText, NoText)>>}}
    /\ total_requests = 0
    /\ active_requests = 0
    /\ \E log_info \in LogInfos, token_info \in CeilingTokenInfos :
         req = [r \in RequestIds |->
                  CeilingCall(log_info, token_info, LogErr(NotCalled, <<>>),
                              InsertErr(NotCalled, <<>>))]
    /\ usage_task = [r \in RequestIds |-> "none"]
    /\ bumped_at = [id \in TokenIds |-> NoTime]
    /\ upstream = <<>>
    /\ buffer = <<>>
    /\ is_start = TRUE
    /\ full_text = <<>>
    /\ body = <<>>
    /\ events = <<>>

\* db::insert_log(&log_info)
CallInsertLog(r) ==
    /\ req[r].logged.err = NotCalled
    /\ LET res == Database_insert_log(logs, req[r].log_info)
       IN /\ logs' = res.logs
          /\ req' = [req EXCEPT ![r].logged = [res EXCEPT !.logs = <<>>]]
    /\ UNCHANGED <<now, users, tokens, counters, usage_task, bumped_at, translation>>

\* db::insert_token(&token_info)
CallInsertToken(r) ==
    /\ req[r].inserted.err = NotCalled
    /\ LET res == insert_token(tokens, req[r].token_info, now)
       IN /\ tokens' = res.tokens
          /\ req' = [req EXCEPT ![r].inserted = [res EXCEPT !.tokens = <<>>]]
    /\ UNCHANGED <<now, users, logs, counters, usage_task, bumped_at, translation>>

NextCeilings == CallInsertLog(1) \/ CallInsertToken(1)

SpecCeilings == InitCeilings /\ [][NextCeilings]_vars

\* ============================================================== users table
\* The users table as a sequence of rows in rowid order: created and seeded
\* by init_users_table, grown by insert_user, changed by
\* update_user_auth_token.  An auth_token is NoBearer (NULL) or a number.
UserRow(id, forum_id, auth_token) ==
    [id |-> id, forum_id |-> forum_id, auth_token |-> auth_token]

UsersOk(us) == [ok |-> TRUE, users |-> us]
UsersErr(us) == [ok |-> FALSE, users |-> us]

\* variant of init_users_table that seeds without looking for the row
init_users_table_always_seeds(us, admin_auth_token) ==
    IF \E i \in DOMAIN us : us[i].id = 0 THEN UsersErr(us)
    ELSE UsersOk(<<UserRow(0, 0, admin_auth_token)>> \o us)

\* init_users_table: CREATE TABLE IF NOT EXISTS, then the administrator
\* row (id 0, forum_id 0) is inserted when SELECT EXISTS(.. WHERE id = 0)
\* finds none
init_users_table(us, admin_auth_token) ==
    LET admin_exists == \E i \in DOMAIN us : us[i].id = 0
    IN IF admin_exists THEN UsersOk(us)
       ELSE UsersOk(<<UserRow(0, 0, admin_auth_token)>> \o us)

\* insert_user: forum_id is UNIQUE, id is AUTOINCREMENT, auth_token NULL
insert_user(us, forum_id) ==
    IF \E i \in DOMAIN us : us[i].forum_id = forum_id THEN UsersErr(us)
    ELSE LET ids == {us[i].id : i \in DOMAIN us}
             id == 1 + (CHOOSE m \in ids \cup {0} : \A k \in ids : k <= m)
         IN UsersOk(Append(us, UserRow(id, forum_id, NoBearer)))

\* variant of update_user_auth_token without the look-up of the token
update_user_auth_token_unchecked(us, forum_id, auth_token) ==
    UsersOk([i \in DOMAIN us |->
               IF us[i].forum_id = forum_id
               THEN [us[i] EXCEPT !.auth_token = auth_token] ELSE us[i]])

\* update_user_auth_token, one transaction: Err when another forum_id holds
\* the token, else UPDATE users SET auth_token = ?1 WHERE forum_id = ?2
update_user_auth_token(us, forum_id, auth_token) ==
    IF /\ auth_token # NoBearer
       /\ \E i \in DOMAIN us : us[i].auth_token = auth_token /\ us[i].forum_id # forum_id
    THEN UsersErr(us)
    ELSE UsersOk([i \in DOMAIN us |->
                    IF us[i].forum_id = forum_id
                    THEN [us[i] EXCEPT !.auth_token = auth_token] ELSE us[i]])

\* ADMIN_AUTH_TOKEN of a run of the process, the forum ids of the users who
\* log in, and the tokens they are given
AdminAuthTokens == {auth_token_of(0), auth_token_of(1)}
ForumIds == 0..MaxForumId
UserAuthTokens == {NoBearer} \cup {auth_token_of(u) : u \in UserIds}

\* an operation on the users table and whether it returned Ok
UserCall(op, forum_id, auth_token, ok) ==
    [op |-> op, forum_id |-> forum_id, auth_token |-> auth_token, ok |-> ok]

\* before the first start: no table, no rows
InitUsersStore ==
    /\ now = 0
    /\ users = <<>>
    /\ tokens = InitTokens([status |-> "Active", pending_at |-> 0])
    /\ logs = [archived |-> [id \in TokenIds |-> 0], rows |-> <<>>]
    /\ total_requests = 0
    /\ active_requests = 0
    /\ req = [r \in RequestIds |-> UserCall("none", 0, NoBearer, TRUE)]
    /\ usage_task = [r \in RequestIds |-> "none"]
    /\ bumped_at = [id \in TokenIds |-> NoTime]
    /\ upstream = <<>>
    /\ buffer = <<>>
    /\ is_start = TRUE
    /\ full_text = <<>>
    /\ body = <<>>
    /\ events = <<>>

UsersStep(r, call, res) ==
    /\ users' = res.users
    /\ req' = [req EXCEPT ![r] = [call EXCEPT !.ok = res.ok]]
    /\ UNCHANGED <<now, tokens, logs, counters, usage_task, bumped_at, translation>>

\* a start of the process: Database::init_users_table
InitUsersTable(r, admin_auth_token) ==
    /\ admin_auth_token \in AdminAuthTokens
    /\ UsersStep(r, UserCall("init_users_table", 0, admin_auth_token, TRUE),
                 init_users_table(users, admin_auth_token))

\* db::insert_user(&forum_user), once the table exists
InsertUser(r, forum_id) ==
    /\ users # <<>>
    /\ Len(users) <= MaxForumId
    /\ UsersStep(r, UserCall("insert_user", forum_id, NoBearer, TRUE),
                 insert_user(users, forum_id))

\* db::update_user_auth_token(forum_id, auth_token), once the table exists
UpdateUserAuthToken(r, forum_id, auth_token) ==
    /\ users # <<>>
    /\ UsersStep(r, UserCall("update_user_auth_token", forum_id, auth_token, TRUE),
                 update_user_auth_token(users, forum_id, auth_token))

NextUsers ==
    \/ \E admin_auth_token \in AdminAuthTokens : InitUsersTable(1, admin_auth_token)
    \/ \E forum_id \in ForumIds : InsertUser(1, forum_id)
    \/ \E forum_id \in ForumIds, auth_token \in UserAuthTokens :
          UpdateUserAuthToken(1, forum_id, auth_token)

SpecUsers == InitUsersStore /\ [][NextUsers]_vars

\* =================================================== requests and reclamation
\* The store operations of handle_chat up to the status bump, interleaved
\* with status changes of credentials and with runs of the reclamation.
\* Each store operation takes the store's lock for itself, so any other
\* operation can run between two of them.  The connection is opened outside
\* these files: a store that enforces the declared foreign key refuses the
\* row of an absent credential, which is insert_log failing; a store that
\* does not enforce it (SQLite's default) accepts the row.
InitIntegrity ==
    /\ now = 0
    /\ users = InitUsers
    /\ tokens = InitTokens([status |-> "Active", pending_at |-> 0])
    /\ logs = InitLogs
    /\ total_requests = 0
    /\ active_requests = 0
    /\ req = [r \in RequestIds |-> NewRequest]
    /\ usage_task = [r \in RequestIds |-> "none"]
    /\ bumped_at = [id \in TokenIds |-> NoTime]
    /\ upstream = <<>>
    /\ buffer = <<>>
    /\ is_start = TRUE
    /\ full_text = <<>>
    /\ body = <<>>
    /\ events = <<>>

\* db::update_token_status(id, status) called for a credential outside
\* handle_chat: it is found expired, or made usable again
SetTokenStatus(id, status) ==
    /\ id \in DOMAIN tokens
    /\ status \in {"Expired", "Active"}
    /\ tokens[id].status # status
    /\ tokens' = update_token_status(tokens, id, status, now)
    /\ UNCHANGED <<now, users, logs, counters, req, usage_task, bumped_at, translation>>

NextIntegrity ==
    \/ \E r \in RequestIds :
          \/ Authenticate(r)
          \/ SelectToken(r)
          \/ InsertLog(r)
          \/ Admit(r)
          \/ CountLogs(r)
          \/ CleanLogs(r)
          \/ BumpToken(r)
    \/ \E id \in TokenIds, status \in TokenStatus : SetTokenStatus(id, status)
    \/ Reclaim

SpecIntegrity == InitIntegrity /\ [][NextIntegrity]_vars

\* =================================================================== AppDb
\* The store of app/db.rs: token_infos and request_logs behind one
\* connection.  Here `tokens` is token_infos (its rows by id and the last
\* AUTOINCREMENT id handed out) together with the connection's foreign key
\* setting, and `logs` is request_logs in id order, which is the order of
\* the timestamps.  AppDb::new sets journal_mode only, so whether the
\* declared foreign key is enforced is the default of the SQLite library
\* the build links: both are possible.
AppTokenInfo(token, fast_requests) == [token |-> token, fast_requests |-> fast_requests]

AppTokens == {"t1", "t2"}
AppTokenInfos == {AppTokenInfo(token, n) : token \in AppTokens, n \in {0, 1}}

RequestLog(token_id) == [token_id |-> token_id]

\* INSERT OR REPLACE INTO token_infos (token, ...) VALUES (...): the row
\* with the same token (UNIQUE) is deleted and a new row is inserted under
\* the next AUTOINCREMENT id.  With foreign keys enforced the statement
\* fails when a request_logs row references the deleted row.
insert_or_replace(tk, lg, token_info) ==
    LET replaced == {id \in DOMAIN tk.rows : tk.rows[id].token = token_info.token}
        id == tk.seq + 1
        referenced == \E i \in DOMAIN lg : lg[i].token_id \in replaced
    IN IF tk.foreign_keys /\ referenced
       THEN [ok |-> FALSE, id |-> NoId, tokens |-> tk]
       ELSE [ok |-> TRUE, id |-> id,
             tokens |-> [tk EXCEPT !.seq = id,
                                   !.rows = [x \in (DOMAIN tk.rows \ replaced) \cup {id} |->
                                               IF x = id THEN token_info ELSE tk.rows[x]]]]

\* AppDb::add_log: get_or_create_token_info(&log.token_info)?, then
\* INSERT INTO request_logs with the returned id
add_log(tk, lg, token_info) ==
    LET created == insert_or_replace(tk, lg, token_info)
    IN IF ~created.ok THEN [ok |-> FALSE, tokens |-> tk, logs |-> lg]
       ELSE [ok |-> TRUE, tokens |-> created.tokens,
             logs |-> Append(lg, RequestLog(created.id))]

\* AppDb::get_recent_logs: request_logs JOIN token_infos ON r.token_id =
\* t.id ORDER BY r.timestamp DESC LIMIT ?; the ids of the rows returned
get_recent_logs(tk, lg, limit) ==
    LET joined == {i \in DOMAIN lg : lg[i].token_id \in DOMAIN tk.rows}
    IN {i \in joined : Cardinality({j \in joined : j > i}) < limit}

AppDbCall(op, ok, result) == [op |-> op, ok |-> ok, result |-> result]

InitAppDb ==
    /\ now = 0
    /\ users = InitUsers
    /\ \E foreign_keys \in BOOLEAN :
         tokens = [foreign_keys |-> foreign_keys, seq |-> 0, rows |-> <<>>]
    /\ logs = <<>>
    /\ total_requests = 0
    /\ active_requests = 0
    /\ req = [r \in RequestIds |-> AppDbCall("none", TRUE, {})]
    /\ usage_task = [r \in RequestIds |-> "none"]
    /\ bumped_at = [id \in TokenIds |-> NoTime]
    /\ upstream = <<>>
    /\ buffer = <<>>
    /\ is_start = TRUE
    /\ full_text = <<>>
    /\ body = <<>>
    /\ events = <<>>

AppDbStep(call) ==
    /\ req' = [req EXCEPT ![1] = call]
    /\ UNCHANGED <<now, users, counters, usage_task, bumped_at, translation>>

\* APP_DB.lock().add_log(&log)
AddLog(token_info) ==
    /\ Len(logs) < MaxAppLogs
    /\ tokens.seq < MaxAppIds
    /\ LET added == add_log(tokens, logs, token_info)
       IN /\ tokens' = added.tokens
          /\ logs' = added.logs
          /\ AppDbStep(AppDbCall("add_log", added.ok, {}))

\* APP_DB.lock().update_token_info(&token_info)
UpdateTokenInfo(token_info) ==
    /\ tokens.seq < MaxAppIds
    /\ LET replaced == insert_or_replace(tokens, logs, token_info)
       IN /\ tokens' = replaced.tokens
          /\ logs' = logs
          /\ AppDbStep(AppDbCall("update_token_info", replaced.ok, {}))

\* APP_DB.lock().get_recent_logs(limit)
GetRecentLogs(limit) ==
    /\ limit \in 1..MaxLimit
    /\ UNCHANGED <<tokens, logs>>
    /\ AppDbStep(AppDbCall("get_recent_logs", TRUE, get_recent_logs(tokens, logs, limit)))

NextAppDb ==
    \/ \E token_info \in AppTokenInfos : AddLog(token_info)
    \/ \E token_info \in AppTokenInfos : UpdateTokenInfo(token_info)
    \/ \E limit \in 1..MaxLimit : GetRecentLogs(limit)

SpecAppDb == InitAppDb /\ [][NextAppDb]_vars

\* ============================================================== pre-flight
\* The streaming branch of handle_chat from `if request.stream` on: the
\* optional check of the first chunk, then the closure called for every
\* item of the stream.  Here `upstream` is the stream: the items that
\* stream.next() has not yielded yet.
StreamItem(ok, bytes) == [ok |-> ok, bytes |-> bytes]

PreflightFrames ==
    {Frame("StreamStart", <<>>, NoText),
     Frame("Content", <<"a">>, NoText),
     Frame("StreamEnd", <<>>, NoText),
     Frame("ChatError", <<>>, NoText),
     Frame("Malformed", <<>>, NoText)}

\* what stream.next() can yield: a frame, the first bytes of one, the last
\* bytes of one, or a read error
StreamItems ==
    {StreamItem(TRUE, SubSeq(frame_bytes(f), i, j)) :
        f \in PreflightFrames, i \in {1}, j \in 1..FrameLen}
    \cup {StreamItem(TRUE, SubSeq(frame_bytes(f), 2, FrameLen)) : f \in PreflightFrames}
    \cup {StreamItem(FALSE, <<>>)}

RECURSIVE Streams(_)
Streams(n) ==
    IF n = 0 THEN {<<>>}
    ELSE Streams(n - 1)
         \cup {<<item>> \o st : item \in StreamItems,
                                st \in {x \in Streams(n - 1) : Len(x) = n - 1}}

StreamCheck(kind, stream) == [kind |-> kind, stream |-> stream]

\* variant of stream_check that hands every chunk it could read to the stream
stream_check_forwards_error(stream) ==
    IF stream = <<>> THEN StreamCheck("None", <<>>)
    ELSE LET first_chunk == Head(stream)
             rest == Tail(stream)
         IN IF ~first_chunk.ok THEN StreamCheck("read error", rest)
            ELSE StreamCheck("stream", <<first_chunk>> \o rest)

\* variant of stream_check that goes on with the stream as next() left it
stream_check_drops_first(stream) ==
    IF stream = <<>> THEN StreamCheck("None", <<>>)
    ELSE LET first_chunk == Head(stream)
             rest == Tail(stream)
         IN IF ~first_chunk.ok THEN StreamCheck("read error", rest)
            ELSE IF parse_stream_data(first_chunk.bytes).kind = "ChatError"
            THEN StreamCheck("ChatError", rest)
            ELSE StreamCheck("stream", rest)

\* the pre-flight check: stream.next().await; None, a read error and a chunk
\* that parses to ChatError leave handle_chat; any other chunk is put back
\* in front of the stream by once(chunk).chain(stream)
stream_check(stream) ==
    IF stream = <<>> THEN StreamCheck("None", <<>>)
    ELSE LET first_chunk == Head(stream)
             rest == Tail(stream)
         IN IF ~first_chunk.ok THEN StreamCheck("read error", rest)
            ELSE IF parse_stream_data(first_chunk.bytes).kind = "ChatError"
            THEN StreamCheck("ChatError", rest)
            ELSE StreamCheck("stream", <<first_chunk>> \o rest)

\* a request at `if request.stream`, with the stream its upstream call got,
\* AppConfig::get_stream_check() and AppConfig::get_stop_stream()
StreamRequest(pc, chunks, enable_stream_check, include_finish_reason) ==
    [pc |-> pc, user |-> 1, token_info |-> [id |-> 1], log_id |-> LOG_KEEP,
     model |-> "none", e |-> NoText, error_respone |-> 0, full_text |-> NoText,
     prompt |-> NoText, resp |-> NoResp,
     chunks |-> chunks, enable_stream_check |-> enable_stream_check,
     include_finish_reason |-> include_finish_reason]

InitPreflight ==
    /\ now = 0
    /\ users = InitUsers
    /\ tokens = update_token_status(
                    InitTokens([status |-> "Active", pending_at |-> 0]), 1, "Pending", 0)
    /\ logs = update_log_status(insert_log(InitLogs, 1), LOG_KEEP, "Success", NoText)
    /\ total_requests = 1
    /\ active_requests = 0
    /\ upstream \in Streams(MaxChunks)
    /\ \E enable_stream_check \in BOOLEAN, include_finish_reason \in BOOLEAN :
         req = [r \in RequestIds |->
                  StreamRequest(IF r = 1 THEN "stream" ELSE "idle", upstream,
                                enable_stream_check, include_finish_reason)]
    /\ usage_task = [r \in RequestIds |-> "none"]
    /\ bumped_at = [id \in TokenIds |-> IF id = 1 THEN 0 ELSE NoTime]
    /\ buffer = <<>>
    /\ is_start = TRUE
    /\ full_text = <<>>
    /\ body = <<>>
    /\ events = <<>>

\* `let stream = { .. }`: with the check enabled the first chunk is read
\* and parsed; the SSE response is returned when the stream is built
Preflight(r) ==
    /\ req[r].pc = "stream"
    /\ IF ~req[r].enable_stream_check
       THEN /\ req' = [req EXCEPT ![r].pc = "streaming", ![r].resp = StreamOk]
            /\ upstream' = upstream
       ELSE LET checked == stream_check(upstream)
            IN /\ upstream' = checked.stream
               /\ CASE checked.kind = "None" -> Goto(r, "log_empty_stream")
                    [] checked.kind = "read error" -> Return(r, RequestFailed)
                    [] checked.kind = "ChatError" ->
                          \E code \in UpstreamErrorCodes :
                             req' = [req EXCEPT ![r].pc = "log_chat_error",
                                                ![r].error_respone = code]
                    [] OTHER ->
                          req' = [req EXCEPT ![r].pc = "streaming", ![r].resp = StreamOk]
    /\ UNCHANGED <<now, store, counters, usage_task, bumped_at,
                   buffer, is_start, full_text, body, events>>

\* the closure called for the next item of the stream;
\* chunk.unwrap_or_default() is the empty chunk for a read error
ClosureNext(r) ==
    /\ req[r].pc = "streaming"
    /\ upstream # <<>>
    /\ \E db_ok \in BOOLEAN :
         LET chunk == Head(upstream).bytes
             msg == parse_stream_data(buffer \o chunk)
             tr == stream_step(Translator(buffer, is_start, full_text, body),
                               chunk, req[r].include_finish_reason)
         IN /\ upstream' = Tail(upstream)
            /\ buffer' = tr.buffer
            /\ is_start' = tr.is_start
            /\ full_text' = tr.full_text
            /\ body' = tr.body
            /\ events' = Recorded(events, msg)
            /\ logs' = IF msg.kind = "Debug" /\ db_ok
                       THEN update_log_prompt(logs, req[r].log_id, msg.debug_prompt)
                       ELSE logs
    /\ UNCHANGED <<now, users, tokens, counters, req, usage_task, bumped_at>>

\* the stream ends: the response body ends with it
ClosureClosed(r) ==
    /\ req[r].pc = "streaming"
    /\ upstream = <<>>
    /\ Goto(r, "closed")
    /\ UNCHANGED <<now, store, counters, usage_task, bumped_at, translation>>

NextPreflight ==
    \/ Preflight(1)
    \/ ClosureNext(1)
    \/ ClosureClosed(1)
    \/ LogChatError(1)
    \/ LogEmptyStream(1)

SpecPreflight == InitPreflight /\ [][NextPreflight]_vars

\* =============================================================== admission
\* The admission checks of handle_chat applied to a request whose header,
\* model and messages are known, against users and credentials of every
\* kind.
ChatRequest(bearer, model, allow_claude, messages_empty, user_db_ok, tokens_db_ok) ==
    [bearer |-> bearer, model |-> model, allow_claude |-> allow_claude,
     messages_empty |-> messages_empty,
     user_db_ok |-> user_db_ok,        \* get_user_by_auth_token returns Ok
     tokens_db_ok |-> tokens_db_ok]    \* get_available_tokens_by_user_id returns Ok

ChatRequests ==
    {ChatRequest(bearer, model, allow_claude, messages_empty, user_db_ok, tokens_db_ok) :
        bearer \in Bearers, model \in RequestModels, allow_claude \in BOOLEAN,
        messages_empty \in BOOLEAN, user_db_ok \in BOOLEAN, tokens_db_ok \in BOOLEAN}

\* how far handle_chat got: the response it returned (NoResp when the
\* request passed every check), the user it found, whether it ran the
\* eligibility query, and the credential it chose
Admission(resp, user, queried, token_id) ==
    [resp |-> resp, user |-> user, queried |-> queried, token_id |-> token_id]

\* variant of handle_chat_admission that selects the credential before it
\* looks at the ban
handle_chat_admission_selects_first(us, tk, t, request, choice) ==
    LET u == get_user_by_auth_token(us, request.bearer)
        available == get_available_tokens_by_user_id(tk, u, t)
    IN IF request.bearer = NoBearer THEN Admission(MissingToken, NoUser, FALSE, NoId)
       ELSE IF ~request.user_db_ok THEN Admission(StoreFailure, NoUser, FALSE, NoId)
       ELSE IF u = NoUser THEN Admission(InvalidToken, NoUser, FALSE, NoId)
       ELSE IF ~request.tokens_db_ok THEN Admission(StoreFailure, u, TRUE, NoId)
       ELSE IF available = {} THEN Admission(NoTokens, u, TRUE, NoId)
       ELSE IF us[u].ban_expired_at # NoTime /\ us[u].ban_expired_at > t
       THEN Admission(UserBanned, u, TRUE, choice)
       ELSE IF ~(request.model \in AVAILABLE_MODELS
                 \/ (request.allow_claude /\ starts_with_claude(request.model)))
       THEN Admission(ModelNotSupported, u, TRUE, choice)
       ELSE IF request.messages_empty THEN Admission(EmptyMessages, u, TRUE, choice)
       ELSE Admission(NoResp, u, TRUE, choice)

\* handle_chat up to the construction of log_info: bearer, user look-up,
\* ban check, eligibility query and random choice, model validation,
\* empty-messages check, each with its early return
handle_chat_admission(us, tk, t, request, choice) ==
    LET u == get_user_by_auth_token(us, request.bearer)
        available == get_available_tokens_by_user_id(tk, u, t)
    IN IF request.bearer = NoBearer THEN Admission(MissingToken, NoUser, FALSE, NoId)
       ELSE IF ~request.user_db_ok THEN Admission(StoreFailure, NoUser, FALSE, NoId)
       ELSE IF u = NoUser THEN Admission(InvalidToken, NoUser, FALSE, NoId)
       ELSE IF us[u].ban_expired_at # NoTime /\ us[u].ban_expired_at > t
       THEN Admission(UserBanned, u, FALSE, NoId)
       ELSE IF ~request.tokens_db_ok THEN Admission(StoreFailure, u, TRUE, NoId)
       ELSE IF available = {} THEN Admission(NoTokens, u, TRUE, NoId)
       ELSE IF ~(request.model \in AVAILABLE_MODELS
                 \/ (request.allow_claude /\ starts_with_claude(request.model)))
       THEN Admission(ModelNotSupported, u, TRUE, choice)
       ELSE IF request.messages_empty THEN Admission(EmptyMessages, u, TRUE, choice)
       ELSE Admission(NoResp, u, TRUE, choice)

\* a request that has arrived, and what became of it
Arrival(pc, request, outcome) == [pc |-> pc, request |-> request, outcome |-> outcome]

InitAdmission ==
    /\ now \in 0..MaxTime
    /\ users = InitUsers
    /\ \E st \in [TokenIds -> {"Active", "Expired"}] :
         tokens = [id \in TokenIds |->
                     TokenRow([status |-> st[id], pending_at |-> 0], IF id = 3 THEN 2 ELSE 1)]
    /\ logs = [archived |-> [id \in TokenIds |-> 0], rows |-> <<>>]
    /\ total_requests = 0
    /\ active_requests = 0
    /\ \E request \in ChatRequests :
         req = [r \in RequestIds |->
                  Arrival("start", request, Admission(NoResp, NoUser, FALSE, NoId))]
    /\ usage_task = [r \in RequestIds |-> "none"]
    /\ bumped_at = [id \in TokenIds |-> NoTime]
    /\ upstream = <<>>
    /\ buffer = <<>>
    /\ is_start = TRUE
    /\ full_text = <<>>
    /\ body = <<>>
    /\ events = <<>>

\* handle_chat, from the header to the last admission check; the random
\* choice is any of the available credentials
HandleChatAdmission(r) ==
    /\ req[r].pc = "start"
    /\ LET u == get_user_by_auth_token(users, req[r].request.bearer)
           available == get_available_tokens_by_user_id(tokens, u, now)
       IN \E choice \in (IF available = {} THEN {NoId} ELSE available) :
            req' = [req EXCEPT ![r].pc = "done",
                               ![r].outcome = handle_chat_admission(users, tokens, now,
                                                  req[r].request, choice)]
    /\ UNCHANGED <<now, store, counters, usage_task, bumped_at, translation>>

NextAdmission == HandleChatAdmission(1)

SpecAdmission == InitAdmission /\ [][NextAdmission]_vars

\* ============================================================ properties
InFlight(r) == req[r].pc \notin {"start", "done"}
Done(r) == req[r].pc = "done"

\* the step of request r that runs the eligibility query and the choice
Selects(r) == req[r].pc = "select" /\ req'[r].pc # "select"

\* eligibility as the specification words it: owned by the user, status
\* Active, and the present moment not before the row's pending time
Eligible(tk, id, u, t) ==
    tk[id].user_id = u /\ tk[id].status = "Active" /\ t >= tk[id].pending_at

EligibleSet(tk, u, t) == {id \in DOMAIN tk : Eligible(tk, id, u, t)}

\* credential c is inside the grace window of a committed Pending write
InGrace(c) == bumped_at[c] # NoTime /\ now < bumped_at[c] + GRACE_MINUTES

\* the positions of handle_chat between the choice of a credential and the
\* commit of its Pending write
PreBump == {"insert_log", "admit", "count", "clean", "bump"}

\* the log row a request inserted
LogOf(lg, r) == lg.rows[row_index(lg, req[r].log_id)]

\* C1: when the eligibility query of an authenticated, non-banned user
\* returns no credential, the request ends there with the no-credentials
\* response (503): it is never admitted, writes no log row and changes no
\* credential or counter.  (The only other end of that step is the query
\* itself failing, which is not a query returning zero rows.)
C1_NoEligibleCredentialIsRejected ==
    [][\A r \in RequestIds :
          (Selects(r) /\ EligibleSet(tokens, req[r].user, now) = {})
             => /\ req'[r].pc = "done"
                /\ req'[r].resp \in {NoTokens, StoreFailure}
                /\ req'[r].log_id = NoId
                /\ UNCHANGED <<store, counters>>]_vars

\* a request was answered 503 no_tokens while its user's rows exist but
\* none is eligible
C1_Witness ==
    \E r \in RequestIds :
        /\ Done(r) /\ req[r].resp = NoTokens /\ req[r].resp.code = 503
        /\ req[r].log_id = NoId
        /\ get_tokens_by_user_id(tokens, req[r].user) # {}

\* C2: once the Pending write on credential c has committed, the
\* eligibility query run at any moment inside the one-minute grace window
\* returns c for no user, so no request can select it.
C2_PendingWriteHidesCredential ==
    \A c \in TokenIds :
        InGrace(c) =>
            \A u \in UserIds : c \notin get_available_tokens_by_user_id(tokens, u, now)

\* inside the grace window of c, a request of c's owner is at its query and
\* the query finds nothing
C2_Witness ==
    \E c \in TokenIds, r \in RequestIds :
        /\ InGrace(c)
        /\ req[r].pc = "select"
        /\ req[r].user = tokens[c].user_id
        /\ get_available_tokens_by_user_id(tokens, req[r].user, now) = {}

\* C3 (as the specification states it): once the grace window after the
\* Pending write has elapsed, the credential is returned by the eligibility
\* query again, so its owner can have a second request admitted.
C3_EligibleAgainAfterGrace ==
    \A c \in TokenIds :
        (bumped_at[c] # NoTime /\ now >= bumped_at[c] + GRACE_MINUTES)
            => c \in get_available_tokens_by_user_id(tokens, tokens[c].user_id, now)

\* C4: the credential a request goes on with is a member of the eligible
\* set of its own user at the moment of the query: owned by that user,
\* status Active, pending time not in the future.
C4_ChoiceFromEligibleSet ==
    [][\A r \in RequestIds :
          (Selects(r) /\ req'[r].token_info.id # NoId)
             => Eligible(tokens, req'[r].token_info.id, req[r].user, now)]_vars

\* two requests of one user with two eligible credentials have chosen one
\* each: every member of the set can come out of the choice
C4_Witness ==
    \E r1, r2 \in RequestIds :
        /\ req[r1].pc = "insert_log" /\ req[r2].pc = "insert_log"
        /\ req[r1].user = req[r2].user
        /\ req[r1].token_info.id # req[r2].token_info.id
        /\ {req[r1].token_info.id, req[r2].token_info.id}
               \subseteq EligibleSet(tokens, req[r1].user, now)

\* C5: exclusivity is advisory.  A request can choose a credential another
\* request already holds, but only while the holder has not yet committed
\* its Pending write; the witness is two requests both sent upstream with
\* the same credential.
C5_SharedOnlyBeforePendingWrite ==
    [][\A r \in RequestIds : \A q \in RequestIds \ {r} :
          (/\ Selects(r)
           /\ req'[r].token_info.id # NoId
           /\ req[q].token_info.id = req'[r].token_info.id)
             => req[q].pc \in PreBump]_vars

C5_Witness ==
    \E r1, r2 \in RequestIds :
        /\ r1 # r2
        /\ req[r1].pc = "log_success" /\ req[r2].pc = "log_success"
        /\ req[r1].token_info.id = req[r2].token_info.id
        /\ req[r1].token_info.id # NoId

\* C6 (as the specification states it): a log row starts Pending and its
\* status changes at most once afterwards, to Success, Failed or Deleted;
\* so every change of status starts from Pending, and a row marked Success
\* is never marked Failed later.
C6_LogStatusChangesOnce ==
    [][/\ \A i \in DOMAIN logs.rows :
             logs'.rows[i].status # logs.rows[i].status
                => logs.rows[i].status = "Pending"
       /\ \A i \in DOMAIN logs'.rows \ DOMAIN logs.rows :
             logs'.rows[i].status = "Pending"]_vars

\* C7 (as the specification states it): once its log row exists, a request
\* that ends in an error response has marked the row Failed before it
\* returned, so the row is not left Pending or Success.  Stated here for
\* the requests whose error is not a failure of the store itself.
C7_ErrorResponseMarksFailed ==
    \A r \in RequestIds :
        (/\ Done(r)
         /\ req[r].log_id # NoId
         /\ req[r].resp.code >= 400
         /\ req[r].resp.error # "database_error")
            => LogOf(logs, r).status \notin {"Pending", "Success"}

\* C8 (as the specification states it): when the upstream call fails at
\* dispatch with a transport error of any length, the request's log row
\* ends Failed with that error text and the caller receives the 500
\* upstream-failure response.  Stated here for the runs in which the store
\* engine itself does not fail.
C8_TransportErrorMarksFailed ==
    [][\A r \in RequestIds :
          (/\ req[r].pc = "log_transport_failed"
           /\ req'[r].pc = "done"
           /\ req'[r].resp # StoreFailure)
             => /\ LogOf(logs', r).status = "Failed"
                /\ LogOf(logs', r).error = req[r].e
                /\ req'[r].resp = RequestFailed]_vars

\* C9 (as the specification states it): when the write that marks the log
\* row Failed does not go through, the failure of the write is not raised
\* and the caller still receives the failure response of the path it was
\* on, never a database error.
C9_FailedWriteErrorNotRaised ==
    [][\A r \in RequestIds :
          (/\ req[r].pc \in {"log_transport_failed", "log_chat_error",
                             "log_empty_stream", "log_empty"}
           /\ req'[r].pc = "done")
             => req'[r].resp.error # "database_error"]_vars

\* C10: a request rejected for authentication (401), ban (403), unsupported
\* model (400) or empty messages (400) inserts no log row, changes no
\* credential and touches neither counter.
Rejections ==
    {MissingToken, InvalidToken, UserBanned, ModelNotSupported, EmptyMessages}

C10_RejectionLeavesNoTrace ==
    [][\A r \in RequestIds :
          (req[r].pc # "done" /\ req'[r].pc = "done" /\ req'[r].resp \in Rejections)
             => /\ UNCHANGED <<store, counters>>
                /\ req'[r].log_id = NoId]_vars

\* one request rejected for its model and one for its empty messages, both
\* after a credential had been chosen for them: no log row, counters at
\* zero, the credentials of the caller still eligible
C10_Witness ==
    \E r1, r2 \in RequestIds :
        /\ Done(r1) /\ req[r1].resp = ModelNotSupported
        /\ Done(r2) /\ req[r2].resp = EmptyMessages
        /\ logs = InitLogs
        /\ total_requests = 0 /\ active_requests = 0
        /\ get_available_tokens_by_user_id(tokens, req[r1].user, now) # {}
        /\ get_available_tokens_by_user_id(tokens, req[r2].user, now) # {}

StatusOf(tk, id) == column_result(tk[id].status).status

\* C21: every stored credential status is one of the four values 0..3 that
\* stand for Pending, Active, Expired, Deleted, every status a read hands
\* out is one of the four, and a column value outside 0..3 decodes to an
\* error, never to a status.
C21_StatusInRange ==
    /\ \A id \in DOMAIN tokens :
          /\ tokens[id].status \in {to_sql(status) : status \in TokenStatus}
          /\ tokens[id].status \in 0..3
          /\ column_result(tokens[id].status).ok
          /\ StatusOf(tokens, id) \in TokenStatus
    /\ \A value \in RawStatus :
          /\ column_result(value).ok <=> value \in 0..3
          /\ column_result(value).ok => column_result(value).status \in TokenStatus
    /\ \A r \in RequestIds :
          (req[r].op = "get_user_info" /\ req[r].result.found # <<>>)
             => req[r].result.found[1].status \in TokenStatus

\* update_token_status has just written Deleted, stored as 3
C21_Witness ==
    /\ req[1].op = "update_token_status"
    /\ tokens[req[1].id].status = 3
    /\ StatusOf(tokens, req[1].id) = "Deleted"

\* C22 (as the specification states it): a credential that is Expired or
\* Deleted is never made Pending or Active again.
C22_TerminalStatesStay ==
    [][\A id \in DOMAIN tokens :
          StatusOf(tokens, id) \in {"Expired", "Deleted"}
             => StatusOf(tokens', id) \notin {"Pending", "Active"}]_vars

\* C23: an alias lookup by an ordinary user returns only a credential of
\* that user, whatever target owner was passed, and a lookup by any caller
\* returns only an Active or Pending credential.
C23_LookupStaysWithOwner ==
    \A r \in RequestIds :
        (req[r].op = "get_user_info" /\ req[r].result.found # <<>>)
           => LET found == req[r].result.found[1]
              IN /\ req[r].current_user_id # 0
                      => /\ found.user_id = req[r].current_user_id
                         /\ tokens[found.id].user_id = req[r].current_user_id
                 /\ found.status \in {"Active", "Pending"}
                 /\ StatusOf(tokens, found.id) \in {"Active", "Pending"}

\* user 1 asked for alias a1 of user 2, who has an Active credential a1, and
\* got their own credential
C23_Witness ==
    /\ req[1].op = "get_user_info"
    /\ req[1].current_user_id = 1 /\ req[1].target_user_id = 2 /\ req[1].alias = "a1"
    /\ StatusOf(tokens, 2) = "Active"
    /\ req[1].result.found # <<>>
    /\ req[1].result.found[1].id = 1

\* C24 (as the specification states it): a lookup by the administrator
\* returns Ok(Some) of a matching Active or Pending credential, of the target
\* owner when one is given and of any owner otherwise, whenever there is
\* one, and Ok(None) when there is none; it returns no error.
C24_AdminLookupFinds ==
    \A r \in RequestIds :
        (req[r].op = "get_user_info" /\ req[r].current_user_id = 0)
           => LET matches ==
                      {id \in DOMAIN tokens :
                          /\ tokens[id].alias = req[r].alias
                          /\ StatusOf(tokens, id) \in {"Active", "Pending"}
                          /\ req[r].target_user_id # NoUser
                                => tokens[id].user_id = req[r].target_user_id}
              IN /\ req[r].result.ok
                 /\ IF matches = {} THEN req[r].result.found = <<>>
                    ELSE /\ req[r].result.found # <<>>
                         /\ req[r].result.found[1].id \in matches

\* C25: the logs response carries no token_info of a Deleted credential,
\* and an alias lookup returns no Deleted credential.
C25_DeletedIsHidden ==
    \A r \in RequestIds :
        /\ req[r].op = "handle_logs_post"
              => \A k \in DOMAIN req[r].result.logs :
                    \A t \in DOMAIN tokens :
                        req[r].result.logs[k].token_info = <<t>>
                           => StatusOf(tokens, t) # "Deleted"
        /\ (req[r].op = "get_user_info" /\ req[r].result.found # <<>>)
              => StatusOf(tokens, req[r].result.found[1].id) # "Deleted"

\* user 1 has read their logs: the row of the Deleted credential 1 came
\* without token_info, the row of credential 3 with it
C25_Witness ==
    /\ req[1].op = "handle_logs_post"
    /\ req[1].current_user_id = 1
    /\ StatusOf(tokens, 1) = "Deleted"
    /\ req[1].result.ok
    /\ req[1].result.logs = <<[status |-> "Success", token_info |-> <<3>>],
                               [status |-> "Success", token_info |-> <<>>]>>

\* ----------------------------------------------------- users table properties
\* C26: no two rows of the users table, the administrator's included, hold
\* the same non-NULL auth_token, and an update_user_auth_token that would
\* give a row the token of another row fails and changes nothing.
C26_AuthTokenUnique ==
    /\ \A i, j \in DOMAIN users :
          (i # j /\ users[i].auth_token # NoBearer)
             => users[i].auth_token # users[j].auth_token
    /\ \A forum_id \in ForumIds, auth_token \in UserAuthTokens \ {NoBearer} :
          (\E i \in DOMAIN users :
              users[i].auth_token = auth_token /\ users[i].forum_id # forum_id)
             => update_user_auth_token(users, forum_id, auth_token) = UsersErr(users)

\* two users hold tokens and an update asking for a token in use was refused
C26_Witness ==
    /\ req[1].op = "update_user_auth_token"
    /\ ~req[1].ok
    /\ Cardinality({i \in DOMAIN users : users[i].auth_token # NoBearer}) = 3

\* C27: once the table is initialized it holds exactly one row with id 0,
\* the administrator (forum_id 0), whatever start-ups and user operations
\* follow; a further initialization succeeds and leaves the table as it is.
C27_OneAdministrator ==
    users # <<>> =>
        /\ Cardinality({i \in DOMAIN users : users[i].id = 0}) = 1
        /\ \A i \in DOMAIN users : users[i].id = 0 => users[i].forum_id = 0
        /\ \A i, j \in DOMAIN users : i # j => users[i].id # users[j].id
        /\ \A admin_auth_token \in AdminAuthTokens :
              init_users_table(users, admin_auth_token) = UsersOk(users)

\* the process was started again, with another ADMIN_AUTH_TOKEN, after two
\* users were inserted
C27_Witness ==
    /\ req[1].op = "init_users_table"
    /\ req[1].ok
    /\ Len(users) = 3
    /\ \E i \in DOMAIN users : users[i].id = 0 /\ users[i].auth_token # req[1].auth_token

\* --------------------------------------------------- log pruning properties
\* position of row i among the rows `ids`, oldest first
RankAsc(ids, i) == Cardinality({j \in ids : j <= i})

DeletedRows(lg, ids) == {i \in ids : lg.rows[i].status = "Deleted"}

\* C16 (as the specification states it): for a user with n > keep_n rows
\* clean_user_logs sets exactly the n - keep_n oldest rows to Deleted and
\* leaves the newest keep_n rows as they are; for n <= keep_n it changes
\* nothing.
C16_OldestExcessDeleted ==
    archived_total(logs) = 0 =>
        \A user_id \in {1, 2}, keep_n \in 0..MaxKeep :
            LET ids == user_rows(logs, tokens, user_id)
                n == Cardinality(ids)
                after == clean_user_logs(logs, tokens, user_id, keep_n)
            IN IF n > keep_n
               THEN \A i \in DOMAIN logs.rows :
                      IF i \in ids /\ RankAsc(ids, i) <= n - keep_n
                      THEN after.rows[i] = [logs.rows[i] EXCEPT !.status = "Deleted"]
                      ELSE after.rows[i] = logs.rows[i]
               ELSE after = logs

Durations == [TokenIds -> 0..MaxDuration]

PastExpiry(d, id) == d[id] > 0 /\ now >= d[id]

\* the log rows of credential id, in order
rows_of(lg, id) ==
    LET of_id(row) == row.token_id = id IN SelectSeq(lg.rows, of_id)

\* C18: a reclamation run never deletes a credential that is Active and
\* whose expiry has not passed, nor a log row that references it.
C18_ActiveNeverReclaimed ==
    [][\A d \in Durations : \A id \in DOMAIN tokens :
          (tokens[id].status = "Active" /\ ~PastExpiry(d, id))
             => /\ id \in DOMAIN tokens'
                /\ tokens'[id] = tokens[id]
                /\ rows_of(logs', id) = rows_of(logs, id)]_vars

\* a run has deleted a credential, and an Active credential and its log
\* row are still there
C18_Witness ==
    /\ DOMAIN tokens # TokenIds
    /\ \E id \in DOMAIN tokens :
          tokens[id].status = "Active" /\ rows_of(logs, id) # <<>>

\* the credentials the specification has a run delete
Reclaimable(d) ==
    {id \in DOMAIN tokens :
        \/ tokens[id].status = "Expired"
        \/ tokens[id].status = "Active" /\ PastExpiry(d, id)}

\* what is left of the store when exactly the credentials of `gone` and the
\* log rows referencing them are deleted
Without(gone, after) ==
    /\ DOMAIN after.tokens = DOMAIN tokens \ gone
    /\ \A id \in DOMAIN after.tokens : after.tokens[id] = tokens[id]
    /\ \A id \in TokenIds :
          rows_of(after.logs, id) = IF id \in gone THEN <<>> ELSE rows_of(logs, id)
    /\ Len(after.logs.rows) = Len(logs.rows) - Cardinality({i \in DOMAIN logs.rows : logs.rows[i].token_id \in gone})

WithinCeilings(token_info) ==
    /\ token_info.token.len <= MAX_TOKEN_LENGTH
    /\ token_info.checksum.len <= MAX_CHECKSUM_LENGTH
    /\ token_info.alias.len <= MAX_ALIAS_LENGTH

\* C20 (as the specification states it): for a credential within the length
\* ceilings that collides with no stored credential on its secret or on
\* (alias, owner), insert_token succeeds and the get_token_by_token that
\* follows returns a credential equal to it in every field but id.
C20_RoundTrip ==
    \A r \in RequestIds :
        LET token_info == req[r].token_info
            others == [id \in DOMAIN tokens \ {req[r].inserted.id} |-> tokens[id]]
        IN (req[r].pc = "done" /\ WithinCeilings(token_info) /\ ~collides(others, token_info))
              => /\ req[r].inserted.ok
                 /\ req[r].fetched.ok
                 /\ req[r].fetched.found # <<>>
                 /\ [req[r].fetched.found[1] EXCEPT !.id = NoId] = token_info

\* ---------------------------------------------------- usage task properties
\* C30: the usage-fetch task spawned at admission is independent of the
\* request: the step in which the task ends, in success or in failure,
\* changes no request (its position, its response) and no row of the store,
\* and no step of handle_chat after admission reads or changes the state of
\* the task, so the handler never waits for it.
C30_UsageTaskIndependent ==
    [][\A r \in RequestIds :
          /\ usage_task'[r] # usage_task[r] /\ usage_task[r] = "spawned"
                => /\ req' = req
                   /\ store' = store
                   /\ counters' = counters
          /\ req'[r] # req[r] /\ req[r].pc # "admit"
                => usage_task' = usage_task]_vars

\* two requests have returned the same response and left their log rows with
\* the same status; the task of one failed, the task of the other has not
\* run
C30_Witness ==
    \E r, q \in RequestIds :
        /\ Done(r) /\ Done(q)
        /\ req[r].resp = req[q].resp
        /\ usage_task[r] = "failed"
        /\ usage_task[q] = "spawned"
        /\ row_index(logs, req[r].log_id) \in DOMAIN logs.rows
        /\ row_index(logs, req[q].log_id) \in DOMAIN logs.rows
        /\ logs.rows[row_index(logs, req[r].log_id)].status
             = logs.rows[row_index(logs, req[q].log_id)].status

\* ---------------------------------------------------- transaction properties
\* what the operation of a transaction does as a whole
whole_operation(tx) ==
    CASE tx.op = "update_token_status" ->
            Database(update_token_status(tx.before.tokens, tx.id, tx.status, now),
                     tx.before.logs)
      [] tx.op = "delete_expired_tokens" ->
            delete_expired_tokens(tx.before.tokens, tx.before.logs)
      [] tx.op = "clean_user_logs" ->
            Database(tx.before.tokens,
                     clean_user_logs(tx.before.logs, tx.before.tokens, tx.user_id, tx.limit))
      [] OTHER -> tx.before

\* C29: update_token_status, delete_expired_tokens and clean_user_logs are
\* atomic: when the operation has returned Err, whichever of its statements
\* failed, the store is exactly what it was before the call; when it has
\* returned Ok the store holds the effect of all its statements; a store
\* with the effect of the first statement only is never left behind.
C29_Atomic ==
    \A r \in RequestIds :
        /\ req[r].result = "Err" => Database(tokens, logs) = req[r].before
        /\ req[r].result = "Ok" => Database(tokens, logs) = whole_operation(req[r])

\* an operation returned Err after its first statement had changed the store
C29_Witness ==
    \E r \in RequestIds :
        /\ req[r].result = "Err"
        /\ req[r].done >= 1
        /\ execute(req[r].statements[1], req[r].before) # req[r].before

\* -------------------------------------------------- field ceiling properties
LogWithinCeilings(log_info) ==
    /\ log_info.prompt <= MAX_PROMPT_LENGTH
    /\ log_info.model <= MAX_MODEL_LENGTH
    /\ log_info.error <= MAX_ERROR_LENGTH

ValidationErrors ==
    {"Prompt too long", "Model name too long", "Error message too long",
     "Token too long", "Checksum too long", "Alias too long"}

\* an input with a field above its ceiling is refused with a validation
\* error by insert_log and by insert_token, and the store stays as it was
C28_OverCeilingRejected ==
    /\ \A log_info \in LogInfos :
          ~LogWithinCeilings(log_info) =>
              LET res == Database_insert_log(logs, log_info)
              IN ~res.ok /\ res.err \in ValidationErrors /\ res.logs = logs
    /\ \A token_info \in CeilingTokenInfos :
          ~WithinCeilings(token_info) =>
              LET res == insert_token(tokens, token_info, now)
              IN ~res.ok /\ res.err \in ValidationErrors /\ res.tokens = tokens
    /\ \A r \in RequestIds :
          /\ (req[r].logged.err # NotCalled /\ ~LogWithinCeilings(req[r].log_info))
                => ~req[r].logged.ok /\ req[r].logged.err \in ValidationErrors
          /\ (req[r].inserted.err # NotCalled /\ ~WithinCeilings(req[r].token_info))
                => ~req[r].inserted.ok /\ req[r].inserted.err \in ValidationErrors

\* a log with every field at its ceiling is accepted by insert_log
C28_LogAtCeilingAccepted ==
    \A r \in RequestIds :
        (req[r].logged.err # NotCalled /\ LogWithinCeilings(req[r].log_info))
           => req[r].logged.ok /\ logs.rows # <<>>

\* a credential with every field at its ceiling, colliding with no stored
\* credential, is accepted by insert_token
C28_TokenAtCeilingAccepted ==
    \A r \in RequestIds :
        LET others == [id \in DOMAIN tokens \ {req[r].inserted.id} |-> tokens[id]]
        IN (/\ req[r].inserted.err # NotCalled
            /\ WithinCeilings(req[r].token_info)
            /\ ~collides(others, req[r].token_info))
              => req[r].inserted.ok

\* C28 (as the specification states it): insert_log and insert_token refuse
\* an input with a field above its ceiling with a validation error and leave
\* the store unchanged, and accept an input whose fields are exactly at
\* their ceilings.
C28_CeilingsEnforced ==
    /\ C28_OverCeilingRejected
    /\ C28_LogAtCeilingAccepted
    /\ C28_TokenAtCeilingAccepted

\* ------------------------------------------------------- own row properties
\* the status of the log row a request wrote
OwnRowStatus(lg, r) == lg.rows[row_index(lg, req[r].log_id)].status

\* the prune of a request runs before the request has written its row
C32_PruneRunsFirst ==
    [][\A r \in RequestIds : req[r].pc = "clean" => req[r].log_id = NoId]_vars

\* the prune of a request does not mark the row the request wrote
C32_OwnPruneSparesOwnRow ==
    [][\A r \in RequestIds :
          (req[r].pc = "clean" /\ req[r].log_id # NoId /\ OwnRowStatus(logs, r) # "Deleted")
             => OwnRowStatus(logs', r) # "Deleted"]_vars

\* C32 (as the specification states it): at admission the prune runs before
\* the Pending log row of the request is written, the prune of a request
\* never marks that request's own row Deleted, and the row still has status
\* Pending when the upstream call is dispatched.
C32_OwnRowPendingAtDispatch ==
    [][\A r \in RequestIds :
          /\ req[r].pc = "clean" => req[r].log_id = NoId
          /\ (req[r].pc = "clean" /\ req[r].log_id # NoId
                 /\ OwnRowStatus(logs, r) # "Deleted")
                => OwnRowStatus(logs', r) # "Deleted"
          /\ (req[r].pc = "bump" /\ req'[r].pc = "dispatch")
                => OwnRowStatus(logs', r) = "Pending"]_vars

\* ----------------------------------------------------- admission properties
\* the five admission checks in the order the specification gives them, each
\* with what makes a request fail it and the response it answers with
AdmissionChecks(request) ==
    LET u == get_user_by_auth_token(users, request.bearer)
    IN << [fails |-> request.bearer = NoBearer, resp |-> MissingToken],
          [fails |-> request.bearer # NoBearer /\ u = NoUser, resp |-> InvalidToken],
          [fails |-> u # NoUser /\ users[u].ban_expired_at # NoTime
                       /\ users[u].ban_expired_at > now,
           resp |-> UserBanned],
          [fails |-> u # NoUser /\ get_available_tokens_by_user_id(tokens, u, now) = {},
           resp |-> NoTokens],
          [fails |-> ~(request.model \in AVAILABLE_MODELS
                       \/ (request.allow_claude /\ starts_with_claude(request.model))),
           resp |-> ModelNotSupported],
          [fails |-> request.messages_empty, resp |-> EmptyMessages] >>

Failing(request) ==
    {i \in DOMAIN AdmissionChecks(request) : AdmissionChecks(request)[i].fails}

\* the response of the earliest failing check, NoResp when none fails
EarliestFailing(request) ==
    IF Failing(request) = {} THEN NoResp
    ELSE AdmissionChecks(request)[CHOOSE i \in Failing(request) :
                                     \A j \in Failing(request) : i <= j].resp

\* C31: handle_chat answers a request with the response of the earliest
\* check it fails, in the order authenticate (401), ban (403), credential
\* selection (503), model (400), empty messages (400), unless a store
\* look-up before that check returned an error (500); a user whose ban has
\* not expired is answered 403 with no eligibility query run and no
\* credential chosen, and a user whose ban has expired passes the ban check.
C31_EarliestFailingCheck ==
    \A r \in RequestIds :
        LET request == req[r].request
            outcome == req[r].outcome
            u == get_user_by_auth_token(users, request.bearer)
            banned == u # NoUser /\ users[u].ban_expired_at # NoTime
                         /\ users[u].ban_expired_at > now
            early == EarliestFailing(request) \in {MissingToken, InvalidToken, UserBanned}
        IN req[r].pc = "done" =>
             /\ (request.user_db_ok /\ request.tokens_db_ok)
                   => outcome.resp = EarliestFailing(request)
             /\ outcome.resp \in {EarliestFailing(request), StoreFailure}
             /\ (request.user_db_ok /\ early) => outcome.resp = EarliestFailing(request)
             /\ (request.user_db_ok /\ banned)
                   => /\ outcome.resp = UserBanned
                      /\ ~outcome.queried
                      /\ outcome.token_id = NoId
             /\ (request.user_db_ok /\ u # NoUser /\ ~banned)
                   => outcome.resp # UserBanned /\ outcome.queried

\* a banned user with no eligible credential asked for an unsupported model
\* with no messages, and was answered 403
C31_Witness ==
    \E r \in RequestIds :
        /\ req[r].pc = "done"
        /\ Cardinality(Failing(req[r].request)) = 4
        /\ req[r].outcome.resp = UserBanned
        /\ req[r].outcome.user = 2

\* ------------------------------------- requests and reclamation properties
\* C38: under any interleaving of the store operations of chat requests,
\* status changes of credentials and reclamation runs, the token_id of every
\* log row names a credential row that is in the store.
C38_LogsNamePresentCredentials ==
    \A i \in DOMAIN logs.rows : logs.rows[i].token_id \in DOMAIN tokens

\* ------------------------------------------------- soft delete properties
\* C39: a log row that has been marked Deleted stays Deleted: no later
\* operation of any request gives it another status, and no row is removed.
C39_DeletedStaysDeleted ==
    [][\A i \in DOMAIN logs.rows :
          logs.rows[i].status = "Deleted"
          => /\ i \in DOMAIN logs'.rows
             /\ logs'.rows[i].status = "Deleted"]_vars

\* ------------------------------------------------------- AppDb properties
\* C40: after any sequence of add_log and update_token_info calls every
\* request_logs row references a token_infos row that exists, so
\* get_recent_logs(limit) returns the `limit` latest of the logs added, or
\* all of them when there are fewer.
C40_LogsReferenceTokenInfos ==
    /\ \A i \in DOMAIN logs : logs[i].token_id \in DOMAIN tokens.rows
    /\ \A limit \in 1..MaxLimit :
          get_recent_logs(tokens, logs, limit)
            = {i \in DOMAIN logs : i > Len(logs) - limit}

\* ---------------------------------------------------- counter properties
\* C37: the in-flight counter is balanced: every increment of
\* active_requests is matched by one decrement on every way out of the
\* handler, so when no request is being handled active_requests is 0.
C37_ActiveRequestsBalanced ==
    (\A r \in RequestIds : ~InFlight(r)) => active_requests = 0

\* ------------------------------------------------- pre-flight properties
\* the first chunk of the stream parses to ChatError, or there is none
FirstChunkIsError(stream) ==
    \/ stream = <<>>
    \/ /\ Head(stream).ok
       /\ parse_stream_data(Head(stream).bytes).kind = "ChatError"

\* the step of request r that ends the pre-flight check of such a stream
RejectedByCheck(r) ==
    /\ req[r].pc = "stream"
    /\ req[r].enable_stream_check
    /\ FirstChunkIsError(upstream)
    /\ req'[r].pc # "stream"

\* the step of request r that returns after the rejecting status write
ReturnsRejected(r) ==
    /\ req[r].pc \in {"log_chat_error", "log_empty_stream"}
    /\ req'[r].pc # req[r].pc

StatusAfter(r) == logs'.rows[row_index(logs', req[r].log_id)].status

\* the rejected request answers with an error, starts no event stream and
\* sends no bytes
NothingStreamed(r) ==
    /\ RejectedByCheck(r) =>
          /\ req'[r].pc \in {"log_chat_error", "log_empty_stream"}
          /\ req'[r].resp = NoResp
          /\ body' = <<>>
    /\ ReturnsRejected(r) =>
          /\ req'[r].pc = "done"
          /\ req'[r].resp.code \in {429, 500}
          /\ req'[r].resp # StreamOk
          /\ body' = <<>>

RECURSIVE closure_over(_, _, _)
closure_over(tr, stream, include_finish_reason) ==
    IF stream = <<>> THEN tr
    ELSE closure_over(stream_step(tr, Head(stream).bytes, include_finish_reason),
                      Tail(stream), include_finish_reason)

\* the items of the stream of request q that upstream has handed over
Yielded(q, left) == SubSeq(q.chunks, 1, Len(q.chunks) - Len(left))

\* C36: for a stream whose first chunk does not parse to ChatError, the
\* bytes sent with the pre-flight check enabled are those sent with it
\* disabled: the response is the event stream, and after every step it holds
\* what the closure alone makes of the chunks yielded so far, the first
\* chunk being fed to it once and first.
C36_PreflightTransparent ==
    [][\A r \in RequestIds :
          LET q == req[r]
          IN (/\ q.pc \in {"stream", "streaming"}
              /\ q.chunks # <<>>
              /\ Head(q.chunks).ok
              /\ parse_stream_data(Head(q.chunks).bytes).kind # "ChatError"
              /\ req'[r] # q)
             => /\ req'[r].pc \in {"streaming", "closed"}
                /\ req'[r].resp = StreamOk
                /\ Translator(buffer', is_start', full_text', body')
                     = closure_over(Translator(<<>>, TRUE, <<>>, <<>>),
                                    Yielded(q, upstream'),
                                    q.include_finish_reason)]_vars

C36_Witness ==
    /\ req[1].pc = "closed"
    /\ req[1].enable_stream_check
    /\ Len(req[1].chunks) = MaxChunks
    /\ Len(body) >= 2

\* ------------------------------------------- stream translator properties
AtFrameBoundary == buffer = <<>> /\ upstream = <<>>

\* the body indices of the content deltas
Deltas == {i \in DOMAIN body : body[i].kind = "delta"}

\* the last role header before body index i (0: none)
LastHeader(i) ==
    LET hs == {j \in 1..(i - 1) : body[j].kind = "header"}
    IN IF hs = {} THEN 0 ELSE CHOOSE j \in hs : \A h \in hs : h <= j

\* the payload of the last Debug message of ev (NoText: none)
LastDebug(ev) ==
    LET ds == {i \in DOMAIN ev : ev[i].kind = "Debug"}
    IN IF ds = {} THEN NoText
       ELSE ev[CHOOSE i \in ds : \A j \in ds : j <= i].debug_prompt

\* the texts of the Content messages of ev, in order
RECURSIVE texts_of(_)
texts_of(ev) ==
    IF ev = <<>> THEN <<>>
    ELSE (IF Head(ev).kind = "Content" THEN Head(ev).texts ELSE <<>>) \o texts_of(Tail(ev))

\* the body and the transcript hold the texts of the Content messages and
\* nothing else
OnlyContentForwarded(ev, out, text) ==
    /\ text = texts_of(ev)
    /\ Cardinality({i \in DOMAIN out : out[i].kind = "delta"}) = Len(texts_of(ev))

\* C12: chunk-boundary independence.  From every state the translator
\* reaches between two frames, and for every frame and every split point,
\* the frame delivered as two chunks leaves the streaming closure and the
\* non-streaming loop in the state the frame delivered as one chunk leaves
\* them in (same output, same transcript, same prompt); the first chunk
\* alone parses as Incomplete, emits nothing and leaves the buffer holding
\* exactly its bytes.
C12_ChunkBoundaryIndependence ==
    AtFrameBoundary =>
        \A f \in Frames, k \in 1..(FrameLen - 1), include_finish_reason \in BOOLEAN :
            LET head == SubSeq(frame_bytes(f), 1, k)
                rest == SubSeq(frame_bytes(f), k + 1, FrameLen)
                tr == Translator(buffer, is_start, full_text, body)
                tr1 == stream_step(tr, head, include_finish_reason)
                ag == Aggregator(buffer, full_text, req[1].prompt)
                ag1 == aggregate_step(ag, head)
            IN /\ parse_stream_data(head) = Incomplete
               /\ tr1 = [tr EXCEPT !.buffer = head]
               /\ stream_step(tr1, rest, include_finish_reason)
                     = stream_step(tr, frame_bytes(f), include_finish_reason)
               /\ ag1 = [ag EXCEPT !.buffer = head]
               /\ f.kind # "ChatError"
                     => aggregate_step(ag1, rest) = aggregate_step(ag, frame_bytes(f))

\* the first chunk of a split Content frame has been taken after earlier
\* output: the buffer holds exactly its bytes and the rest is still to come
C12_Witness ==
    /\ req[1].pc = "streaming"
    /\ body # <<>>
    /\ buffer # <<>> /\ upstream # <<>>
    /\ buffer \o upstream = frame_bytes(Frame("Content", <<"a">>, NoText))

Malformed == Frame("Malformed", <<>>, NoText)

\* C33: a malformed frame is not fatal, in the streaming closure and in the
\* non-streaming loop alike.  From every state between two frames, the
\* malformed frame, whole or split, leaves the translator as it was, with an
\* empty buffer and no output, so that every frame delivered after it is
\* translated as it would have been without it; and the step that meets the
\* parse error changes neither the request nor the store.
C33_MalformedFrameIsSkipped ==
    [][/\ AtFrameBoundary =>
            \A k \in 1..FrameLen, include_finish_reason \in BOOLEAN :
                LET head == SubSeq(frame_bytes(Malformed), 1, k)
                    rest == SubSeq(frame_bytes(Malformed), k + 1, FrameLen)
                    tr == Translator(buffer, is_start, full_text, body)
                    tr1 == stream_step(tr, head, include_finish_reason)
                    tr2 == IF rest = <<>> THEN tr1
                           ELSE stream_step(tr1, rest, include_finish_reason)
                    ag == Aggregator(buffer, full_text, req[1].prompt)
                    ag1 == aggregate_step(ag, head)
                    ag2 == IF rest = <<>> THEN ag1 ELSE aggregate_step(ag1, rest)
                IN /\ tr2 = [tr EXCEPT !.buffer = <<>>]
                   /\ ag2 = [ag EXCEPT !.buffer = <<>>]
                   /\ \A f \in Frames :
                         /\ stream_step(tr2, frame_bytes(f), include_finish_reason)
                               = stream_step(tr, frame_bytes(f), include_finish_reason)
                         /\ aggregate_step(ag2, frame_bytes(f))
                               = aggregate_step(ag, frame_bytes(f))
       /\ (events' # events /\ events'[Len(events')] = ParseError)
             => /\ buffer' = <<>>
                /\ body' = body
                /\ full_text' = full_text
                /\ is_start' = is_start
                /\ req' = req
                /\ store' = store]_vars

\* a streaming body took a malformed frame, split over two chunks, and then
\* translated a Content frame
C33_Witness ==
    /\ req[1].pc = "streaming"
    /\ Len(events) = 2
    /\ events[1] = ParseError
    /\ events[2].kind = "Content"
    /\ body = content_deltas(events[2].texts, TRUE)
    /\ buffer = <<>>

\* the messages of ev before its first StreamEnd (all of ev when it has none)
BeforeStreamEnd(ev) ==
    LET ends == {i \in DOMAIN ev : ev[i].kind = "StreamEnd"}
    IN IF ends = {} THEN ev
       ELSE SubSeq(ev, 1, (CHOOSE i \in ends : \A j \in ends : i <= j) - 1)

\* C34 (as the specification states it): in non-streaming mode the
\* transcript holds the texts of the Content messages received before the
\* first StreamEnd and no text received after it, while the loop reads and
\* when the loop has ended and completion_tokens is taken from it.
C34_AccumulationStopsAtStreamEnd ==
    \A r \in RequestIds :
        /\ req[r].pc = "aggregating" => full_text = texts_of(BeforeStreamEnd(events))
        /\ req[r].pc \in {"log_empty", "log_prompt"}
              => req[r].full_text = Len(texts_of(BeforeStreamEnd(events)))

\* C13: in streaming mode the messages StreamStart, Content, Content,
\* StreamEnd produce exactly the role header, a delta with the model name, a
\* delta without it and the terminator ending in [DONE]; and in every body a
\* content delta carries the model name exactly when no other delta lies
\* between it and the last role header (or the start of the body).
C13_FirstDeltaCarriesModel ==
    /\ req[1].pc \in {"streaming", "closed"}
          => /\ events = <<Frame("StreamStart", <<>>, NoText),
                            Frame("Content", <<"a">>, NoText),
                            Frame("Content", <<"a">>, NoText),
                            Frame("StreamEnd", <<>>, NoText)>>
                   => body \in {<<RoleHeader, Delta("a", TRUE), Delta("a", FALSE),
                                  DoneSentinel>>,
                                <<RoleHeader, Delta("a", TRUE), Delta("a", FALSE),
                                  FinishChunk, DoneSentinel>>}
             /\ \A i \in Deltas :
                   body[i].model <=> (\A j \in (LastHeader(i) + 1)..(i - 1) : j \notin Deltas)

\* the four messages have been translated and the body ended
C13_Witness ==
    /\ req[1].pc = "closed"
    /\ events = <<Frame("StreamStart", <<>>, NoText),
                   Frame("Content", <<"a">>, NoText),
                   Frame("Content", <<"a">>, NoText),
                   Frame("StreamEnd", <<>>, NoText)>>
    /\ body[Len(body)] = DoneSentinel

\* C14 (as the specification states it): a streaming body that ran to the
\* end of the upstream stream ends with the [DONE] sentinel, which occurs in
\* it exactly once, whatever the upstream sent.
C14_BodyEndsWithOneDone ==
    \A r \in RequestIds :
        req[r].pc = "closed"
            => /\ body # <<>>
               /\ body[Len(body)] = DoneSentinel
               /\ Cardinality({i \in DOMAIN body : body[i] = DoneSentinel}) = 1

\* C15 (as the specification states it): the payload of a Debug message is
\* never sent to the caller and is in the prompt field of the request's log
\* row once the request has ended.
C15_DebugPayloadLogged ==
    /\ req[1].pc = "closed" => OnlyContentForwarded(events, body, full_text)
    /\ \A r \in RequestIds :
          (req[r].pc \in {"closed", "done"} /\ LastDebug(events) # NoText)
             => LogOf(logs, r).prompt = LastDebug(events)

\* C15 as amended: a Debug payload is never part of the body or of the
\* transcript.  The streaming closure writes the payload to the prompt of
\* the log row when it parses the message, unless that write fails; the
\* non-streaming handler writes the payload of the last Debug message, and
\* only when it ends with the aggregate response: on the empty-transcript
\* path the prompt is set to NULL, and while the loop reads, or when it is
\* left by a read error or an upstream error, nothing is written.
C15_DebugStaysInside ==
    [][/\ req[1].pc = "streaming" => OnlyContentForwarded(events', body', full_text')
       /\ req[1].pc = "aggregating" => full_text' = texts_of(events')
       /\ \A r \in RequestIds :
             /\ (/\ req[r].pc = "streaming"
                 /\ events' # events
                 /\ events'[Len(events')].kind = "Debug")
                   => /\ Len(body') = Len(body)
                      /\ \/ logs' = logs
                         \/ LogOf(logs', r).prompt = events'[Len(events')].debug_prompt
             /\ req[r].pc = "aggregating" => logs' = logs
             /\ (req[r].pc = "log_prompt" /\ req'[r].resp = JsonOk)
                   => LogOf(logs', r).prompt = LastDebug(events)
             /\ (req[r].pc = "clear_prompt" /\ req'[r].resp = RequestFailed)
                   => LogOf(logs', r).prompt = NoText]_vars

\* a streaming body in which a Debug message was parsed after content went
\* out: the payload is in the log row and not in the body
C15_Witness ==
    /\ req[1].pc = "streaming"
    /\ body # <<>>
    /\ LastDebug(events) # NoText
    /\ LogOf(logs, 1).prompt = LastDebug(events)
====
